---- MODULE Spec2Model ----
(***************************************************************************)
(* The session / game orchestration state machine of lichess_bot.py:       *)
(* LichessBot.run (the main event loop), the challenge gatekeeper           *)
(* (accept_challenge, decline_challenge, challenge_user,                    *)
(* challenge_random_bot), handle_game as seen from the main loop, and the   *)
(* schedule (check_schedule), together with the remote service the bot      *)
(* talks to: challenges, games and the incoming event stream.               *)
(***************************************************************************)
EXTENDS Integers, Sequences, FiniteSets, TLC

None == "none"
\* the value of current_game_id when no game is current (Python None)
NoId == 0

(***************************************************************************)
(* Bounds of the model.                                                     *)
(***************************************************************************)
\* number of challenge / game ids the remote service hands out in one behaviour
MaxIds == 2
\* number of undelivered events the incoming event stream buffers
MaxQueue == 2
\* retry budget challenge_random_bot is started with (max_retries)
MaxRetries == 1
\* number of blocklist and settings calls made on the object before run
MaxSetterCalls == 1
\* largest elapsed time and threshold for which check_schedule is examined
MaxHours == 3

Ids == 1..MaxIds

(***************************************************************************)
(* Accounts of the remote service.  Names keep their letter case; the      *)
(* blocklist holds lower-cased names.                                       *)
(***************************************************************************)
Humans == {"Ann"}
Bots == {"BotB"}
Names == Humans \cup Bots

\* str.lower() on the names of the model
Lower(n) ==
  CASE n = "Ann" -> "ann"
    [] n = "BotB" -> "botb"
    [] OTHER -> n

\* a membership test that does not lower-case the name (not the code's)
IsBlockedCaseSensitive(bl, username) == username \in bl
\* is_blocked: username.lower() in self.blocklist
IsBlocked(bl, username) == Lower(username) \in bl

\* the blocklist file after a complete json.dump of the names
Written(names) == [valid |-> TRUE, names |-> names]
\* the file after open(..., 'w') truncated it and the write failed
Truncated == [valid |-> FALSE, names |-> {}]

\* _save_blocklist: the whole set is dumped over the file; an exception of
\* open or of the write is caught and printed
_save_blocklist(file, bl, st) ==
  CASE st = "ok" -> Written(bl)
    [] st = "readonly" -> file
    [] OTHER -> Truncated

\* _load_blocklist: the names of the file in lower case; the empty set when
\* the file cannot be parsed
_load_blocklist(file) ==
  IF file.valid THEN {Lower(n) : n \in file.names} ELSE {}

(***************************************************************************)
(* Variants.                                                                *)
(***************************************************************************)
FairyVariants ==
  {"standard", "crazyhouse", "chess960", "kingOfTheHill", "threeCheck",
   "antichess", "atomic", "horde", "racingKings"}
StockfishVariants == {"standard", "chess960"}

\* the supported_variants property
supported_variants(fairy) == IF fairy THEN FairyVariants ELSE StockfishVariants

\* variant keys of the challenge events of the model; the last one is the
\* value run uses when the event carries no variant key
ChallengeVariants == {"standard", "chess960", "atomic", "standard, chess960"}

(***************************************************************************)
(* The schedule.  Time is counted in half hours.                            *)
(***************************************************************************)
\* a check_schedule without the shutdown phase (not the code's)
check_schedule_no_shutdown(runtime, wd, mx) ==
  IF runtime >= wd THEN "winding_down" ELSE "running"
\* a check_schedule that tests the wind-down threshold first (not the code's)
check_schedule_swapped(runtime, wd, mx) ==
  IF runtime >= wd THEN "winding_down"
  ELSE IF runtime >= mx THEN "shutdown"
  ELSE "running"
\* get_runtime_hours / check_schedule
check_schedule(runtime, wd, mx) ==
  IF runtime >= mx THEN "shutdown"
  ELSE IF runtime >= wd THEN "winding_down"
  ELSE "running"

VARIABLES
  \* Session (LichessBot fields)
  current_game_id, challenge_accepted, winding_down, final_game_played,
  should_stop,
  blocklist, use_fairy_stockfish, arena_mode, can_challenge_bots,
  can_challenge_users,
  winddown_hours, max_runtime_hours,
  \* arguments of run
  auto_challenge_bots, challenge_users,
  \* control: where the bot's thread is
  pc,         \* "new" | "config" | "startup" | "loop" | "crb" | "resume" | "game" |
              \* "done" (run returned) | "exited" (sys.exit)
  idx,        \* startup: index of the next entry of challenge_users
  setter_calls, \* blocklist and settings calls made so far, before run
  crb,        \* the running challenge_random_bot call: retries left, caller, held event
  handling,   \* game ids whose handle_game call has been entered and has not returned
  cleanups,   \* number of cleanup() calls of the current run
  \* remote service and clock
  now,        \* elapsed time since start_time
  status,     \* per id: what the service holds for it
  queue,      \* the incoming event stream: events sent and not yet received
  nextId,
  \* history: what the last step of the bot did
  calls,       \* calls to the remote service made by the last step, in order
  last,        \* the event the last step dispatched and the session it met
  accepted_id, \* id of the challenge whose accept call set challenge_accepted
  \* a call of a function of the bot examined on its own
  args,        \* the fields and arguments the call reads
  ret,         \* what the call returned
  \* a call of handle_game followed through the events of its game
  stream,      \* the game stream: events sent and not yet read
  frame,       \* local variables of the call: bot_is_white, variant, chat_sent
  log,         \* history: the events read and what was done on each
  \* the blocklist file and the file system it lies on
  blocklist_file, \* what the file holds: valid JSON or not, and the names in it
  storage         \* "ok" | "readonly" (open fails) | "full" (the write fails)

session == <<current_game_id, challenge_accepted, winding_down,
             final_game_played, should_stop>>
settings == <<blocklist, use_fairy_stockfish, arena_mode, can_challenge_bots,
              can_challenge_users>>
sched == <<winddown_hours, max_runtime_hours>>
runargs == <<auto_challenge_bots, challenge_users>>
ctl == <<pc, idx, setter_calls, crb, handling, cleanups>>
env == <<now, status, queue, nextId>>
hist == <<calls, last, accepted_id>>
fn == <<args, ret>>
play == <<stream, frame, log>>
disk == <<blocklist_file, storage>>
vars == <<session, settings, sched, runargs, ctl, env, hist, fn, play, disk>>

NoEvent == [type |-> None, id |-> 0, challenger |-> None, variant |-> None]
\* tried: the bots drawn by the earlier frames of the chain, whose rated and
\* casual attempts both failed (history)
NoCrb == [retries |-> 0, rated |-> FALSE, origin |-> None, ev |-> NoEvent,
          tried |-> <<>>]
NoArgs == [fn |-> None]
NoRet == [fn |-> None]
\* bot_is_white = None, variant = 'standard', chat_sent = False
NoFrame == [bot_is_white |-> "None", variant |-> "standard", chat_sent |-> FALSE]
NoLast == [type |-> None, id |-> 0, challenger |-> None, variant |-> None,
           cur |-> NoId, latch |-> FALSE, acc |-> 0, wd |-> FALSE,
           origin |-> None]

\* what _load_blocklist finds in the blocklist file: no file, or names that it
\* lower-cases
LoadedBlocklists == {{}, {Lower("Ann")}}

\* LichessBot.__init__
Init ==
  /\ current_game_id = NoId
  /\ challenge_accepted = FALSE
  /\ winding_down = FALSE
  /\ final_game_played = FALSE
  /\ should_stop = FALSE
  /\ blocklist \in LoadedBlocklists
  /\ use_fairy_stockfish = FALSE
  /\ arena_mode = FALSE
  /\ can_challenge_bots = TRUE
  /\ can_challenge_users = TRUE
  /\ winddown_hours = 11
  /\ max_runtime_hours = 12
  /\ auto_challenge_bots = TRUE
  /\ challenge_users = <<>>
  /\ pc = "config"
  /\ idx = 1
  /\ setter_calls = 0
  /\ crb = NoCrb
  /\ handling = {}
  /\ cleanups = 0
  /\ now = 0
  /\ status = [i \in Ids |-> "unused"]
  /\ queue = <<>>
  /\ nextId = 1
  /\ calls = <<>>
  /\ last = NoLast
  /\ accepted_id = 0
  /\ args = NoArgs
  /\ ret = NoRet
  /\ stream = <<>>
  /\ frame = NoFrame
  /\ log = <<>>
  /\ blocklist_file = Written(blocklist)
  /\ storage = "ok"

(***************************************************************************)
(* Calls to the remote service, as the history records them.               *)
(***************************************************************************)
Call(op, id, user, reason, rated, ok) ==
  [op |-> op, id |-> id, user |-> user, reason |-> reason, rated |-> rated,
   ok |-> ok]
AcceptCall(id, ok) == Call("accept", id, None, None, FALSE, ok)
DeclineCall(id, reason, ok) == Call("decline", id, None, reason, FALSE, ok)
\* get_public_data; reason holds what the lookup answered
LookupCall(username, kind) == Call("lookup", 0, username, kind, FALSE, kind # "error")
CreateCall(username, rated, ok) == Call("create", 0, username, None, rated, ok)

Creates(cs) == {i \in 1..Len(cs) : cs[i].op = "create"}
Accepts(cs) == {i \in 1..Len(cs) : cs[i].op = "accept"}
Declines(cs) == {i \in 1..Len(cs) : cs[i].op = "decline"}

(***************************************************************************)
(* Operations on the configured object before run is called: the blocklist *)
(* and the settings setters.                                               *)
(***************************************************************************)
\* a call on the object before run is called
Configuring ==
  /\ UNCHANGED <<fn, play, storage>>
  /\ pc = "config"
  /\ setter_calls < MaxSetterCalls
  /\ setter_calls' = setter_calls + 1
  /\ UNCHANGED <<pc, idx, crb, handling, cleanups>>

\* an add that compares and stores the name as it was given (not the code's)
add_to_blocklist_as_given(bl, file, st, username) ==
  IF username \notin bl
  THEN [blocklist |-> bl \cup {username},
        file |-> _save_blocklist(file, bl \cup {username}, st), result |-> TRUE]
  ELSE [blocklist |-> bl, file |-> file, result |-> FALSE]

\* add_to_blocklist(username) on blocklist bl: the new set, the file after
\* _save_blocklist, and the value returned
add_to_blocklist(bl, file, st, username) ==
  LET username_lower == Lower(username)
  IN  IF username_lower \notin bl
      THEN [blocklist |-> bl \cup {username_lower},
            file |-> _save_blocklist(file, bl \cup {username_lower}, st),
            result |-> TRUE]
      ELSE [blocklist |-> bl, file |-> file, result |-> FALSE]

\* remove_from_blocklist(username)
remove_from_blocklist(bl, file, st, username) ==
  LET username_lower == Lower(username)
  IN  IF username_lower \in bl
      THEN [blocklist |-> bl \ {username_lower},
            file |-> _save_blocklist(file, bl \ {username_lower}, st),
            result |-> TRUE]
      ELSE [blocklist |-> bl, file |-> file, result |-> FALSE]

\* add_to_blocklist, the call that returns True
AddToBlocklist(username) ==
  /\ Configuring
  /\ LET r == add_to_blocklist(blocklist, blocklist_file, storage, username)
     IN  /\ r.result
         /\ blocklist' = r.blocklist
         /\ blocklist_file' = r.file
  /\ UNCHANGED <<session, use_fairy_stockfish, arena_mode, can_challenge_bots,
                 can_challenge_users, sched, runargs, env, hist>>

\* remove_from_blocklist, the call that returns True
RemoveFromBlocklist(username) ==
  /\ Configuring
  /\ LET r == remove_from_blocklist(blocklist, blocklist_file, storage, username)
     IN  /\ r.result
         /\ blocklist' = r.blocklist
         /\ blocklist_file' = r.file
  /\ UNCHANGED <<session, use_fairy_stockfish, arena_mode, can_challenge_bots,
                 can_challenge_users, sched, runargs, env, hist>>

\* an optional boolean argument: "None", "True" or "False"
OptBool == {"None", "True", "False"}
SetTo(arg, old) == IF arg = "None" THEN old ELSE arg = "True"

\* set_challenge_settings: an argument of None leaves the setting as it is
SetChallengeSettings(cb, cu, am) ==
  /\ Configuring
  /\ can_challenge_bots' = SetTo(cb, can_challenge_bots)
  /\ can_challenge_users' = SetTo(cu, can_challenge_users)
  /\ arena_mode' = SetTo(am, arena_mode)
  /\ <<can_challenge_bots', can_challenge_users', arena_mode'>>
       # <<can_challenge_bots, can_challenge_users, arena_mode>>
  /\ UNCHANGED <<session, blocklist, use_fairy_stockfish, sched, runargs,
                 env, hist, blocklist_file>>

\* _initialize_engine: the engine of the flag is started, or the process
\* exits with code 1 (the file is missing, or popen_uci or configure raised)
_initialize_engine(fairy, started) ==
  [engine |-> IF ~started THEN None
              ELSE IF fairy THEN "fairy-stockfish" ELSE "stockfish",
   exited |-> ~started,
   code |-> IF started THEN 0 ELSE 1]

\* set_engine_settings(use_fairy_stockfish=arg) on an object whose flag is
\* fairy: with None or the value of the flag nothing is done; else the
\* running engine is quit, the flag is set and _initialize_engine is called
set_engine_settings(fairy, arg, started) ==
  IF arg = "None" \/ SetTo(arg, fairy) = fairy
  THEN [use_fairy_stockfish |-> fairy, changed |-> FALSE, quit |-> FALSE,
        engine |-> IF fairy THEN "fairy-stockfish" ELSE "stockfish",
        exited |-> FALSE, code |-> 0]
  ELSE LET e == _initialize_engine(SetTo(arg, fairy), started)
       IN  [use_fairy_stockfish |-> SetTo(arg, fairy), changed |-> TRUE,
            quit |-> TRUE, engine |-> e.engine, exited |-> e.exited,
            code |-> e.code]

\* set_engine_settings, the call that changes the flag: the other engine
\* starts, or the process exits
SetEngineSettings(fairy) ==
  /\ UNCHANGED <<fn, play, disk>>
  /\ pc = "config"
  /\ setter_calls < MaxSetterCalls
  /\ setter_calls' = setter_calls + 1
  /\ \E started \in BOOLEAN :
       LET r == set_engine_settings(use_fairy_stockfish, fairy, started)
       IN  /\ r.changed
           /\ use_fairy_stockfish' = r.use_fairy_stockfish
           /\ pc' = IF r.exited THEN "exited" ELSE pc
  /\ UNCHANGED <<session, blocklist, arena_mode, can_challenge_bots,
                 can_challenge_users, sched, runargs, env, hist, idx, crb,
                 handling, cleanups>>

(***************************************************************************)
(* Outbound challenges.                                                     *)
(***************************************************************************)
\* what get_public_data can answer for an account: its kind, or a fault
LookupKinds(username) ==
  IF username \in Bots THEN {"bot", "error"} ELSE {"user", "error"}

\* a permission check that looks at can_challenge_bots only (not the code's)
PermittedByBotFlag(kind) == can_challenge_bots

\* the permission check of challenge_user after the lookup
Permitted(kind) ==
  IF kind = "bot" THEN can_challenge_bots ELSE can_challenge_users

\* fail-fast guards without the blocklist test (not the code's)
FailsFastNoBlockCheck(username) == current_game_id # NoId \/ arena_mode

\* the fail-fast guards of challenge_user
FailsFast(username) ==
  current_game_id # NoId \/ arena_mode \/ IsBlocked(blocklist, username)

\* challenge_user(username, rated): every run it can take, as the calls it
\* makes and its result; canCreate says whether the service can still register
\* a challenge
ChallengeUserRuns(username, rated, canCreate) ==
  IF FailsFast(username)
  THEN {[ok |-> FALSE, calls |-> <<>>]}
  ELSE UNION {
    IF ~Permitted(kind)
    THEN {[ok |-> FALSE, calls |-> <<LookupCall(username, kind)>>]}
    ELSE {[ok |-> o,
           calls |-> <<LookupCall(username, kind), CreateCall(username, rated, o)>>]
          : o \in (IF canCreate THEN BOOLEAN ELSE {FALSE})}
    : kind \in LookupKinds(username)}

\* the service registers the challenge a successful create call made
Registered(st, ok) == IF ok THEN [st EXCEPT ![nextId] = "outbound"] ELSE st
CanCreate == nextId <= MaxIds

(***************************************************************************)
(* Starting run.                                                            *)
(***************************************************************************)
\* the wind-down and shutdown thresholds run_scheduled.py computes from the
\* wall clock when it is started in the half hour before the shutdown time, and
\* the ones it falls back to; thresholds it computes earlier in the day are
\* half an hour apart too and differ from these only in the numbers
ScheduledThresholds == {<<0, 1>>, <<23, 24>>}

\* the callers of run: what they assign before the call, and the arguments
Launchers ==
  {[name |-> "lichess_bot.py", script |-> FALSE, fairy |-> "None",
    thresholds |-> {<<11, 12>>},
    wd |-> "None", auto |-> TRUE, users |-> <<>>],
   [name |-> "main.py", script |-> TRUE, fairy |-> "False",
    thresholds |-> {<<11, 12>>},
    wd |-> "True", auto |-> FALSE, users |-> <<>>],
   [name |-> "run_scheduled.py", script |-> TRUE, fairy |-> "False",
    thresholds |-> ScheduledThresholds,
    wd |-> "None", auto |-> TRUE, users |-> <<>>],
   [name |-> "run(challenge_users)", script |-> FALSE, fairy |-> "None",
    thresholds |-> {<<11, 12>>},
    wd |-> "None", auto |-> TRUE, users |-> <<"Ann">>]}

\* the settings as __init__ leaves them
DefaultSettings ==
  /\ ~use_fairy_stockfish
  /\ ~arena_mode
  /\ can_challenge_bots
  /\ can_challenge_users

\* the position run reaches after its prologue decided what to do at startup
StartupPc(users, auto, wd) ==
  IF users # <<>> THEN "startup"
  ELSE IF auto /\ ~wd THEN "crb"
  ELSE "loop"

\* a script constructs the bot and calls run at once; run can also be called
\* on an object whose settings were changed
Launch(l) ==
  /\ UNCHANGED <<fn, play, disk>>
  /\ pc = "config"
  /\ l.script => DefaultSettings
  /\ setter_calls' = 0
  /\ use_fairy_stockfish' = SetTo(l.fairy, use_fairy_stockfish)
  /\ \E t \in l.thresholds : winddown_hours' = t[1] /\ max_runtime_hours' = t[2]
  /\ winding_down' = SetTo(l.wd, winding_down)
  /\ final_game_played' = IF l.wd # "None" THEN FALSE ELSE final_game_played
  /\ auto_challenge_bots' = l.auto
  /\ challenge_users' = l.users
  /\ pc' = StartupPc(l.users, l.auto, winding_down')
  /\ idx' = 1
  /\ crb' = IF pc' = "crb"
            THEN [retries |-> MaxRetries, rated |-> TRUE, origin |-> "startup",
                  ev |-> NoEvent, tried |-> <<>>]
            ELSE NoCrb
  /\ calls' = <<>>
  /\ last' = [NoLast EXCEPT !.type = "launch"]
  /\ UNCHANGED <<current_game_id, challenge_accepted, should_stop, blocklist,
                 arena_mode, can_challenge_bots, can_challenge_users, handling,
                 cleanups, env, accepted_id>>

\* one turn of the loop over challenge_users at the start of run
StartupChallenge ==
  /\ UNCHANGED <<fn, play, disk>>
  /\ pc = "startup"
  /\ \E r \in ChallengeUserRuns(challenge_users[idx], TRUE, CanCreate) :
       /\ calls' = r.calls
       /\ status' = Registered(status, r.ok)
       /\ nextId' = IF r.ok THEN nextId + 1 ELSE nextId
  /\ idx' = idx + 1
  /\ pc' = IF idx' > Len(challenge_users) THEN "loop" ELSE "startup"
  /\ last' = [NoLast EXCEPT !.type = "startup", !.origin = "startup"]
  /\ UNCHANGED <<session, settings, sched, runargs, setter_calls, crb, handling,
                 cleanups, now, queue, accepted_id>>

(***************************************************************************)
(* The remote service and the clock.                                        *)
(***************************************************************************)
Event(type, id, challenger, variant) ==
  [type |-> type, id |-> id, challenger |-> challenger, variant |-> variant]

Running == pc \in {"loop", "game"}

\* somebody challenges the bot: the service sends a challenge event (who the
\* challenger is and which variant is asked for is read when run receives it)
NewChallenge ==
  /\ UNCHANGED <<fn, play, disk>>
  /\ Running
  /\ nextId <= MaxIds
  /\ Len(queue) < MaxQueue
  /\ status' = [status EXCEPT ![nextId] = "inbound"]
  /\ queue' = Append(queue, Event("challenge", nextId, None, None))
  /\ nextId' = nextId + 1
  /\ calls' = <<>> /\ last' = NoLast
  /\ UNCHANGED <<session, settings, sched, runargs, ctl, now, accepted_id>>

\* the game of a challenge the bot accepted starts: a gameStart event
GameBegins(i) ==
  /\ UNCHANGED <<fn, play, disk>>
  /\ Running
  /\ status[i] = "accepted"
  /\ Len(queue) < MaxQueue
  /\ status' = [status EXCEPT ![i] = "started"]
  /\ queue' = Append(queue, Event("gameStart", i, None, None))
  /\ calls' = <<>> /\ last' = NoLast
  /\ UNCHANGED <<session, settings, sched, runargs, ctl, now, nextId, accepted_id>>

\* the opponent accepts a challenge of the bot: the game starts
OpponentAccepts(i) ==
  /\ UNCHANGED <<fn, play, disk>>
  /\ Running
  /\ status[i] = "outbound"
  /\ Len(queue) < MaxQueue
  /\ status' = [status EXCEPT ![i] = "started"]
  /\ queue' = Append(queue, Event("gameStart", i, None, None))
  /\ calls' = <<>> /\ last' = NoLast
  /\ UNCHANGED <<session, settings, sched, runargs, ctl, now, nextId, accepted_id>>

\* the opponent declines a challenge of the bot, or lets it expire
OpponentDeclines(i) ==
  /\ UNCHANGED <<fn, play, disk>>
  /\ Running
  /\ status[i] = "outbound"
  /\ status' = [status EXCEPT ![i] = "dead"]
  /\ calls' = <<>> /\ last' = NoLast
  /\ UNCHANGED <<session, settings, sched, runargs, ctl, now, queue, nextId,
                 accepted_id>>

\* a started game ends (mate, resignation, time, abort): a gameFinish event
GameEnds(i) ==
  /\ UNCHANGED <<fn, play, disk>>
  /\ Running
  /\ status[i] = "started"
  /\ Len(queue) < MaxQueue
  /\ status' = [status EXCEPT ![i] = "over"]
  /\ queue' = Append(queue, Event("gameFinish", i, None, None))
  /\ calls' = <<>> /\ last' = NoLast
  /\ UNCHANGED <<session, settings, sched, runargs, ctl, now, nextId, accepted_id>>

\* the service sends an event of a type run has no branch for
\* (challengeCanceled, challengeDeclined)
OtherEvent ==
  /\ UNCHANGED <<fn, play, disk>>
  /\ Running
  /\ Len(queue) < MaxQueue
  /\ queue' = Append(queue, Event("other", 0, None, None))
  /\ calls' = <<>> /\ last' = NoLast
  /\ UNCHANGED <<session, settings, sched, runargs, ctl, now, status, nextId,
                 accepted_id>>

\* the elapsed times that the schedule tells apart
TimePoints == {0, winddown_hours, max_runtime_hours}

\* time passes
Advance(t) ==
  /\ UNCHANGED <<fn, play, disk>>
  /\ Running
  /\ t > now
  /\ now' = t
  /\ calls' = <<>> /\ last' = NoLast
  /\ UNCHANGED <<session, settings, sched, runargs, ctl, status, queue, nextId,
                 accepted_id>>

\* stop(), called from outside the loop's thread
Stop ==
  /\ UNCHANGED <<fn, play, disk>>
  /\ Running
  /\ ~should_stop
  /\ should_stop' = TRUE
  /\ calls' = <<>> /\ last' = NoLast
  /\ UNCHANGED <<current_game_id, challenge_accepted, winding_down,
                 final_game_played, settings, sched, runargs, ctl, env,
                 accepted_id>>

(***************************************************************************)
(* The challenge gatekeeper.                                                *)
(***************************************************************************)
\* decline_challenge(id, reason): one call; a failure is only logged
DeclineRuns(id, reason) ==
  {[calls |-> <<DeclineCall(id, reason, ok)>>,
    latch |-> challenge_accepted,
    accepted |-> FALSE,
    st |-> IF ok THEN [status EXCEPT ![id] = "dead"] ELSE status]
   : ok \in BOOLEAN}

\* an accept_challenge that sets the latch before the call (not the code's)
LatchBeforeAccept(ok) == TRUE
\* the value accept_challenge leaves in challenge_accepted after its accept
\* call returned (ok) or raised
LatchAfterAccept(ok) == IF ok THEN TRUE ELSE challenge_accepted

\* accept_challenge without the arena-mode test (not the code's)
AcceptChallengeRunsNoArena(id) ==
  IF current_game_id # NoId \/ challenge_accepted
  THEN DeclineRuns(id, "later")
  ELSE {[calls |-> <<AcceptCall(id, TRUE)>>,
         latch |-> LatchAfterAccept(TRUE),
         accepted |-> TRUE,
         st |-> [status EXCEPT ![id] = "accepted"]]}

\* accept_challenge(id): every run it can take
AcceptChallengeRuns(id) ==
  IF arena_mode \/ current_game_id # NoId \/ challenge_accepted
  THEN DeclineRuns(id, "later")
  ELSE {[calls |-> <<AcceptCall(id, TRUE)>>,
         latch |-> LatchAfterAccept(TRUE),
         accepted |-> TRUE,
         st |-> [status EXCEPT ![id] = "accepted"]]}
       \cup
       \* the call raises; "incompatible with a BOT account" is declined
       {[calls |-> <<AcceptCall(id, FALSE)>>,
         latch |-> LatchAfterAccept(FALSE),
         accepted |-> FALSE,
         st |-> status]}
       \cup
       {[calls |-> <<AcceptCall(id, FALSE)>> \o d.calls,
         latch |-> LatchAfterAccept(FALSE),
         accepted |-> FALSE,
         st |-> d.st] : d \in DeclineRuns(id, "generic")}

\* two other orders of the chain (not the code's): the blocklist test first,
\* and no wind-down test
DecisionBlockFirst(wd, cur, latch, blocked, variant, fairy) ==
  IF blocked THEN "generic"
  ELSE IF wd \/ cur # NoId \/ latch THEN "later"
  ELSE IF variant \in supported_variants(fairy)
       THEN IF variant # "standard" /\ ~fairy THEN "variant" ELSE "accept"
       ELSE "variant"
DecisionNoWinddown(wd, cur, latch, blocked, variant, fairy) ==
  IF cur # NoId THEN "later"
  ELSE IF latch THEN "later"
  ELSE IF blocked THEN "generic"
  ELSE IF variant \in supported_variants(fairy)
       THEN IF variant # "standard" /\ ~fairy THEN "variant" ELSE "accept"
       ELSE "variant"
\* the if / elif chain of run's challenge branch: a decline reason, or
\* "accept" when accept_challenge is called
Decision(wd, cur, latch, blocked, variant, fairy) ==
  IF wd THEN "later"
  ELSE IF cur # NoId THEN "later"
  ELSE IF latch THEN "later"
  ELSE IF blocked THEN "generic"
  ELSE IF variant \in supported_variants(fairy)
       THEN IF variant # "standard" /\ ~fairy THEN "variant" ELSE "accept"
       ELSE "variant"

\* the challenge branch for event e: every run it can take
ChallengeRuns(e, wd) ==
  LET d == Decision(wd, current_game_id, challenge_accepted,
                    IsBlocked(blocklist, e.challenger), e.variant,
                    use_fairy_stockfish)
  IN IF d = "accept" THEN AcceptChallengeRuns(e.id) ELSE DeclineRuns(e.id, d)

(***************************************************************************)
(* The main loop of run.  One iteration is one step, except that a call of  *)
(* challenge_random_bot or handle_game made by it runs as steps of its own. *)
(* In the operators below e is the event the iteration received, wd is      *)
(* winding_down after the schedule check and q is the rest of the stream.   *)
(***************************************************************************)
\* what the history keeps of a step: its kind, the event it received, and the
\* session fields it met
LastOf(kind, e, wd) ==
  [type |-> kind, id |-> e.id, challenger |-> e.challenger,
   variant |-> e.variant, cur |-> current_game_id,
   latch |-> challenge_accepted, acc |-> accepted_id, wd |-> wd,
   origin |-> None]

\* break, and cleanup() from run's finally; the event stream is closed
ExitRun(kind, e, wd) ==
  /\ pc' = "done"
  /\ cleanups' = cleanups + 1
  /\ crb' = NoCrb
  /\ queue' = <<>>
  /\ calls' = <<>>
  /\ last' = LastOf(kind, e, wd)
  /\ UNCHANGED <<current_game_id, challenge_accepted, final_game_played,
                 should_stop, handling, status, nextId, accepted_id>>

\* a call of challenge_random_bot(rated=...) begins
EnterCrb(kind, origin, rated, e, wd, q) ==
  /\ pc' = "crb"
  /\ crb' = [retries |-> MaxRetries, rated |-> rated, origin |-> origin, ev |-> e,
             tried |-> <<>>]
  /\ queue' = q
  /\ calls' = <<>>
  /\ last' = LastOf(kind, e, wd)
  /\ UNCHANGED <<handling, cleanups, status, nextId, accepted_id>>

\* the challenge branch; the event names its challenger and its variant
DispatchChallenge(e0, wd, q) ==
  /\ \E c \in Names, v \in ChallengeVariants :
       LET e == [e0 EXCEPT !.challenger = c, !.variant = v]
       IN /\ \E r \in ChallengeRuns(e, wd) :
               /\ calls' = r.calls
               /\ challenge_accepted' = r.latch
               /\ status' = r.st
               /\ accepted_id' = IF r.accepted THEN e.id ELSE accepted_id
          /\ last' = LastOf("challenge", e, wd)
  /\ pc' = "loop"
  /\ crb' = NoCrb
  /\ queue' = q
  /\ UNCHANGED <<current_game_id, final_game_played, should_stop, handling,
                 cleanups, nextId>>

\* a gameStart branch that drops the event when another game is current (not
\* the code's)
StartsGameUnlessBusy(cur, id) == cur = NoId \/ cur = id
\* whether run calls handle_game for a gameStart event: always
StartsGame(cur, id) == TRUE

\* a handle_game started in a thread of its own, run going on (not the code's)
HandleGameInThread == "loop"
\* where run's thread is after it called handle_game: inside the call
HandleGamePc == "game"

\* the gameStart branch, up to the first line of handle_game
DispatchGameStart(e, wd, q) ==
  /\ challenge_accepted' = FALSE
  /\ accepted_id' = 0
  /\ IF StartsGame(current_game_id, e.id)
     THEN /\ current_game_id' = e.id
          /\ handling' = handling \cup {e.id}
          /\ pc' = HandleGamePc
     ELSE /\ UNCHANGED <<current_game_id, handling>>
          /\ pc' = "loop"
  /\ crb' = NoCrb
  /\ queue' = q
  /\ calls' = <<>>
  /\ last' = LastOf("gameStart", e, wd)
  /\ UNCHANGED <<final_game_played, should_stop, cleanups, status, nextId>>

\* the gameFinish branch
DispatchGameFinish(e, wd, q) ==
  LET cur == IF current_game_id = e.id THEN NoId ELSE current_game_id
  IN /\ current_game_id' = cur
     /\ IF wd
        THEN \* the final game: break, cleanup
             /\ final_game_played' = TRUE
             /\ pc' = "done"
             /\ cleanups' = cleanups + 1
             /\ crb' = NoCrb
             /\ queue' = <<>>
             /\ calls' = <<>>
             /\ last' = LastOf("gameFinish", e, wd)
             /\ UNCHANGED <<challenge_accepted, should_stop, handling, status,
                            nextId, accepted_id>>
        ELSE IF auto_challenge_bots /\ cur = NoId
             \* stop() may be called during the three seconds of sleep
             THEN \E stopped \in BOOLEAN :
                    /\ should_stop' = stopped
                    /\ IF stopped
                       THEN /\ pc' = "loop"
                            /\ crb' = NoCrb
                            /\ queue' = q
                            /\ calls' = <<>>
                            /\ last' = LastOf("gameFinish", e, wd)
                            /\ UNCHANGED <<handling, cleanups, status, nextId,
                                           accepted_id>>
                       ELSE EnterCrb("gameFinish", "finish", FALSE, NoEvent, wd, q)
                    /\ UNCHANGED <<challenge_accepted, final_game_played>>
             ELSE /\ pc' = "loop"
                  /\ crb' = NoCrb
                  /\ queue' = q
                  /\ calls' = <<>>
                  /\ last' = LastOf("gameFinish", e, wd)
                  /\ UNCHANGED <<challenge_accepted, final_game_played,
                                 should_stop, handling, cleanups, status,
                                 nextId, accepted_id>>

\* an event of another type: no branch is taken
DispatchOther(e, wd, q) ==
  /\ pc' = "loop"
  /\ crb' = NoCrb
  /\ queue' = q
  /\ calls' = <<>>
  /\ last' = LastOf("other", e, wd)
  /\ UNCHANGED <<current_game_id, challenge_accepted, final_game_played,
                 should_stop, handling, cleanups, status, nextId, accepted_id>>

Dispatch(e, wd, q) ==
  CASE e.type = "challenge" -> DispatchChallenge(e, wd, q)
    [] e.type = "gameStart" -> DispatchGameStart(e, wd, q)
    [] e.type = "gameFinish" -> DispatchGameFinish(e, wd, q)
    [] OTHER -> DispatchOther(e, wd, q)

\* the rest of an iteration after the schedule check and the wind-down
\* transition: the stop check, the final-game check, the dispatch
AfterSchedule(e, wd, q) ==
  IF should_stop THEN ExitRun("stop", e, wd)
  ELSE IF wd /\ current_game_id = NoId /\ final_game_played
       THEN ExitRun("final", e, wd)
       ELSE Dispatch(e, wd, q)

\* a schedule status that never reports the shutdown phase (not the code's)
PhaseWithoutShutdown ==
  IF now >= winddown_hours THEN "winding_down" ELSE "running"
\* schedule_status, as run reads it at the top of an iteration
Phase == check_schedule(now, winddown_hours, max_runtime_hours)

\* an event arrives in the shutdown phase: break
IterShutdown ==
  /\ UNCHANGED <<fn, play, disk>>
  /\ pc = "loop"
  /\ queue # <<>>
  /\ Phase = "shutdown"
  /\ ExitRun("shutdown", Head(queue), winding_down)
  /\ UNCHANGED <<winding_down, settings, sched, runargs, now, idx, setter_calls>>

\* a transition that originates the final challenge whether or not the bot is
\* idle (not the code's)
FinalChallengeWhenever == auto_challenge_bots
\* whether the wind-down transition originates the final challenge
FinalChallenge ==
  current_game_id = NoId /\ ~challenge_accepted /\ auto_challenge_bots

\* the wind-down transition with the final challenge: the iteration goes on
\* when challenge_random_bot has returned
IterWinddownChallenge ==
  /\ UNCHANGED <<fn, play, disk>>
  /\ pc = "loop"
  /\ queue # <<>>
  /\ Phase = "winding_down"
  /\ ~winding_down
  /\ FinalChallenge
  /\ winding_down' = TRUE
  /\ EnterCrb("winddown", "winddown", FALSE, Head(queue), TRUE, Tail(queue))
  /\ UNCHANGED <<current_game_id, challenge_accepted, final_game_played,
                 should_stop, settings, sched, runargs, now, idx, setter_calls>>

\* every other iteration
IterDispatch ==
  /\ UNCHANGED <<fn, play, disk>>
  /\ pc = "loop"
  /\ queue # <<>>
  /\ Phase # "shutdown"
  /\ ~(Phase = "winding_down" /\ ~winding_down /\ FinalChallenge)
  /\ winding_down' = (winding_down \/ Phase = "winding_down")
  /\ AfterSchedule(Head(queue), winding_down', Tail(queue))
  /\ UNCHANGED <<settings, sched, runargs, now, idx, setter_calls>>

\* the iteration of the wind-down transition goes on after the final challenge
Resume ==
  /\ UNCHANGED <<fn, play, disk>>
  /\ pc = "resume"
  /\ AfterSchedule(crb.ev, winding_down, queue)
  /\ UNCHANGED <<winding_down, settings, sched, runargs, now, idx, setter_calls>>

\* the event stream raises or ends, or the loop is interrupted: finally
LoopFault ==
  /\ UNCHANGED <<fn, play, disk>>
  /\ pc = "loop"
  /\ ExitRun("fault", NoEvent, winding_down)
  /\ UNCHANGED <<winding_down, settings, sched, runargs, now, idx, setter_calls>>

(***************************************************************************)
(* challenge_random_bot.  One step is one call frame: a bot is drawn, the   *)
(* rated and the casual attempt are made, and the frame returns or recurses.*)
(***************************************************************************)
\* the rated argument of the two challenge_user calls of a frame, given the
\* rated argument challenge_random_bot was called with
FirstAttemptRated(rated) == TRUE
\* a second attempt that is rated as well (not the code's)
SecondAttemptAlsoRated(rated) == TRUE
SecondAttemptRated(rated) == FALSE

\* challenge_random_bot returns to its caller
CrbReturn(cs, st, nid) ==
  /\ pc' = IF crb.origin = "winddown" THEN "resume" ELSE "loop"
  /\ crb' = IF crb.origin = "winddown" THEN crb ELSE NoCrb
  /\ calls' = cs
  /\ status' = st
  /\ nextId' = nid

CrbFrame ==
  /\ UNCHANGED <<fn, play, disk>>
  /\ pc = "crb"
  /\ IF current_game_id # NoId \/ arena_mode \/ ~can_challenge_bots
     THEN CrbReturn(<<>>, status, nextId)
     ELSE \E online \in SUBSET Bots :
       LET available == {b \in online : ~IsBlocked(blocklist, b)}
       IN IF available = {}
          THEN CrbReturn(<<>>, status, nextId)
          ELSE \E b \in available :
               \E r1 \in ChallengeUserRuns(b, FirstAttemptRated(crb.rated), CanCreate) :
                 IF r1.ok
                 THEN CrbReturn(r1.calls, Registered(status, TRUE), nextId + 1)
                 ELSE \E r2 \in ChallengeUserRuns(b, SecondAttemptRated(crb.rated),
                                                  CanCreate) :
                        IF r2.ok
                        THEN CrbReturn(r1.calls \o r2.calls,
                                       Registered(status, TRUE), nextId + 1)
                        ELSE IF crb.retries > 0
                             THEN /\ pc' = "crb"
                                  /\ crb' = [crb EXCEPT !.retries = @ - 1,
                                                    !.tried = Append(@, b)]
                                  /\ calls' = r1.calls \o r2.calls
                                  /\ UNCHANGED <<status, nextId>>
                             ELSE CrbReturn(r1.calls \o r2.calls, status, nextId)
  /\ last' = [NoLast EXCEPT !.type = "crb", !.origin = crb.origin]
  /\ UNCHANGED <<session, settings, sched, runargs, idx, setter_calls,
                 handling, cleanups, now, queue, accepted_id>>

(***************************************************************************)
(* handle_game, as the main loop sees it: the call is entered by the        *)
(* gameStart branch and the loop goes on when it has returned.              *)
(***************************************************************************)
\* a return that leaves current_game_id as it is (not the code's)
KeepsGameId(g) == g
\* the value handle_game leaves in current_game_id when it returns
ClearedGameId(g) == NoId

\* the game stream reports that the game is over: break, return
HandleGameReturns ==
  /\ UNCHANGED <<fn, play, disk>>
  /\ pc = "game"
  /\ status[current_game_id] = "over"
  /\ handling' = handling \ {current_game_id}
  /\ current_game_id' = ClearedGameId(current_game_id)
  /\ pc' = "loop"
  /\ calls' = <<>>
  /\ last' = [NoLast EXCEPT !.type = "return", !.id = current_game_id]
  /\ UNCHANGED <<challenge_accepted, winding_down, final_game_played,
                 should_stop, settings, sched, runargs, idx, setter_calls, crb,
                 cleanups, env, accepted_id>>

\* the game stream ends or raises while the game is still going on
HandleGameFault ==
  /\ UNCHANGED <<fn, play, disk>>
  /\ pc = "game"
  /\ status[current_game_id] # "over"
  /\ handling' = handling \ {current_game_id}
  /\ current_game_id' = ClearedGameId(current_game_id)
  /\ pc' = "loop"
  /\ calls' = <<>>
  /\ last' = [NoLast EXCEPT !.type = "gameFault", !.id = current_game_id]
  /\ UNCHANGED <<challenge_accepted, winding_down, final_game_played,
                 should_stop, settings, sched, runargs, idx, setter_calls, crb,
                 cleanups, env, accepted_id>>

\* KeyboardInterrupt inside handle_game: not an Exception, so it leaves
\* handle_game and run through run's finally
HandleGameInterrupt ==
  /\ UNCHANGED <<fn, play, disk>>
  /\ pc = "game"
  /\ handling' = handling \ {current_game_id}
  /\ pc' = "done"
  /\ cleanups' = cleanups + 1
  /\ calls' = <<>>
  /\ last' = [NoLast EXCEPT !.type = "interrupt", !.id = current_game_id]
  /\ queue' = <<>>
  /\ UNCHANGED <<session, settings, sched, runargs, idx, setter_calls, crb, now,
                 status, nextId, accepted_id>>

\* KeyboardInterrupt during the startup challenges (the sleeps of lines 690
\* and 694, or a call made by them): they stand before run's try, so the
\* interrupt leaves run without passing through its finally
StartupInterrupt ==
  /\ UNCHANGED <<fn, play, disk>>
  /\ pc = "startup" \/ (pc = "crb" /\ crb.origin = "startup")
  /\ pc' = "done"
  /\ crb' = NoCrb
  /\ calls' = <<>>
  /\ last' = [NoLast EXCEPT !.type = "interrupt"]
  /\ UNCHANGED <<session, settings, sched, runargs, idx, setter_calls, handling,
                 cleanups, env, accepted_id>>

\* KeyboardInterrupt inside a challenge_random_bot call made by the loop:
\* not an Exception, so it leaves the call and run through run's finally
CrbInterrupt ==
  /\ UNCHANGED <<fn, play, disk>>
  /\ pc = "crb"
  /\ crb.origin # "startup"
  /\ pc' = "done"
  /\ cleanups' = cleanups + 1
  /\ crb' = NoCrb
  /\ queue' = <<>>
  /\ calls' = <<>>
  /\ last' = [NoLast EXCEPT !.type = "interrupt"]
  /\ UNCHANGED <<session, settings, sched, runargs, idx, setter_calls, handling,
                 now, status, nextId, accepted_id>>

(***************************************************************************)
(* The specification of one run.                                            *)
(***************************************************************************)
Next ==
  \/ \E n \in Names : AddToBlocklist(n)
  \/ \E n \in Names : RemoveFromBlocklist(n)
  \/ \E cb \in OptBool, cu \in OptBool, am \in OptBool :
       SetChallengeSettings(cb, cu, am)
  \/ \E f \in OptBool : SetEngineSettings(f)
  \/ \E l \in Launchers : Launch(l)
  \/ StartupChallenge
  \/ NewChallenge
  \/ \E i \in Ids : GameBegins(i)
  \/ \E i \in Ids : OpponentAccepts(i)
  \/ \E i \in Ids : OpponentDeclines(i)
  \/ \E i \in Ids : GameEnds(i)
  \/ \E t \in TimePoints : Advance(t)
  \/ Stop
  \/ IterShutdown
  \/ IterWinddownChallenge
  \/ IterDispatch
  \/ Resume
  \/ LoopFault
  \/ CrbFrame
  \/ HandleGameReturns
  \/ HandleGameFault
  \/ HandleGameInterrupt
  \/ StartupInterrupt
  \/ CrbInterrupt

Spec == Init /\ [][Next]_vars

(***************************************************************************)
(* The run in arena mode: set_challenge_settings(arena_mode=True) was       *)
(* called on the object, with either engine, before run; the service pairs  *)
(* the bot into tournament games, which begin without a challenge.          *)
(***************************************************************************)
InitArena ==
  /\ current_game_id = NoId
  /\ challenge_accepted = FALSE
  /\ winding_down = FALSE
  /\ final_game_played = FALSE
  /\ should_stop = FALSE
  /\ blocklist \in LoadedBlocklists
  /\ use_fairy_stockfish \in BOOLEAN
  /\ arena_mode = TRUE
  /\ can_challenge_bots = TRUE
  /\ can_challenge_users = TRUE
  /\ winddown_hours = 11
  /\ max_runtime_hours = 12
  /\ auto_challenge_bots = TRUE
  /\ challenge_users = <<>>
  /\ pc = "config"
  /\ idx = 1
  /\ setter_calls = 1
  /\ crb = NoCrb
  /\ handling = {}
  /\ cleanups = 0
  /\ now = 0
  /\ status = [i \in Ids |-> "unused"]
  /\ queue = <<>>
  /\ nextId = 1
  /\ calls = <<>>
  /\ last = NoLast
  /\ accepted_id = 0
  /\ args = NoArgs
  /\ ret = NoRet
  /\ stream = <<>>
  /\ frame = NoFrame
  /\ log = <<>>
  /\ blocklist_file = Written(blocklist)
  /\ storage = "ok"

\* the tournament pairs the bot, which has no game going on: a gameStart
\* event for a game that no challenge preceded
ArenaPairing ==
  /\ UNCHANGED <<fn, play, disk>>
  /\ Running
  /\ arena_mode
  /\ nextId <= MaxIds
  /\ Len(queue) < MaxQueue
  /\ \A i \in Ids : status[i] # "started"
  /\ status' = [status EXCEPT ![nextId] = "started"]
  /\ queue' = Append(queue, Event("gameStart", nextId, None, None))
  /\ nextId' = nextId + 1
  /\ calls' = <<>> /\ last' = NoLast
  /\ UNCHANGED <<session, settings, sched, runargs, ctl, now, accepted_id>>

NextArena ==
  \/ \E l \in Launchers : Launch(l)
  \/ StartupChallenge
  \/ NewChallenge
  \/ ArenaPairing
  \/ \E i \in Ids : GameEnds(i)
  \/ \E t \in TimePoints : Advance(t)
  \/ Stop
  \/ IterShutdown
  \/ IterWinddownChallenge
  \/ IterDispatch
  \/ Resume
  \/ LoopFault
  \/ CrbFrame
  \/ HandleGameReturns
  \/ HandleGameFault
  \/ HandleGameInterrupt
  \/ StartupInterrupt
  \/ CrbInterrupt

SpecArena == InitArena /\ [][NextArena]_vars

(***************************************************************************)
(* The run in which stop() is called only while the loop sleeps in its      *)
(* gameFinish branch: the loop reads should_stop when it wakes up (line     *)
(* 792), so that every stop request has been observed by the loop before    *)
(* it receives its next event.  The session was not closed by stop (it has  *)
(* no _session attribute to close), and the event stream goes on.           *)
(***************************************************************************)
NextStop ==
  \/ \E l \in Launchers : Launch(l)
  \/ StartupChallenge
  \/ NewChallenge
  \/ \E i \in Ids : GameBegins(i)
  \/ \E i \in Ids : OpponentAccepts(i)
  \/ \E i \in Ids : OpponentDeclines(i)
  \/ \E i \in Ids : GameEnds(i)
  \/ OtherEvent
  \/ \E t \in TimePoints : Advance(t)
  \/ IterShutdown
  \/ IterWinddownChallenge
  \/ IterDispatch
  \/ Resume
  \/ LoopFault
  \/ CrbFrame
  \/ HandleGameReturns
  \/ HandleGameFault
  \/ HandleGameInterrupt
  \/ StartupInterrupt
  \/ CrbInterrupt

SpecStop == Init /\ [][NextStop]_vars

(***************************************************************************)
(* run called again on the same object, after a run that an interrupt       *)
(* inside handle_game ended: current_game_id still names that game.         *)
(***************************************************************************)
Rerun ==
  /\ UNCHANGED <<fn, play, disk>>
  /\ pc = "done"
  /\ current_game_id # NoId
  /\ pc' = StartupPc(challenge_users, auto_challenge_bots, winding_down)
  /\ idx' = 1
  /\ crb' = IF pc' = "crb"
            THEN [retries |-> MaxRetries, rated |-> TRUE, origin |-> "startup",
                  ev |-> NoEvent, tried |-> <<>>]
            ELSE NoCrb
  /\ cleanups' = 0
  /\ calls' = <<>>
  /\ last' = [NoLast EXCEPT !.type = "launch"]
  /\ UNCHANGED <<session, settings, sched, runargs, setter_calls, handling, env,
                 accepted_id>>

NextRerun == Next \/ Rerun

SpecRerun == Init /\ [][NextRerun]_vars

(***************************************************************************)
(* check_schedule examined on its own: the elapsed time, the thresholds and *)
(* the latches are arbitrary, the function is called and time passes.       *)
(***************************************************************************)
InitSchedule ==
  /\ current_game_id = NoId
  /\ challenge_accepted = FALSE
  /\ winding_down \in BOOLEAN
  /\ final_game_played \in BOOLEAN
  /\ should_stop = FALSE
  /\ blocklist = {}
  /\ use_fairy_stockfish = FALSE
  /\ arena_mode = FALSE
  /\ can_challenge_bots = TRUE
  /\ can_challenge_users = TRUE
  /\ winddown_hours \in 0..MaxHours
  /\ max_runtime_hours \in 0..MaxHours
  /\ auto_challenge_bots = TRUE
  /\ challenge_users = <<>>
  /\ pc = "config"
  /\ idx = 1
  /\ setter_calls = 0
  /\ crb = NoCrb
  /\ handling = {}
  /\ cleanups = 0
  /\ now \in 0..MaxHours
  /\ status = [i \in Ids |-> "unused"]
  /\ queue = <<>>
  /\ nextId = 1
  /\ calls = <<>>
  /\ last = NoLast
  /\ accepted_id = 0
  /\ args = NoArgs
  /\ ret = NoRet
  /\ stream = <<>>
  /\ frame = NoFrame
  /\ log = <<>>
  /\ blocklist_file = Written(blocklist)
  /\ storage = "ok"

\* a call of check_schedule: it reads the clock and the two thresholds and
\* assigns nothing
CheckSchedule ==
  /\ ret' = [fn |-> "check_schedule", at |-> now,
             phase |-> check_schedule(now, winddown_hours, max_runtime_hours)]
  /\ UNCHANGED <<session, settings, sched, runargs, ctl, env, hist, args, play, disk>>

\* time passes
Tick ==
  /\ now < MaxHours
  /\ now' = now + 1
  /\ UNCHANGED <<session, settings, sched, runargs, ctl, status, queue, nextId,
                 hist, fn, play, disk>>

NextSchedule == CheckSchedule \/ Tick

SpecSchedule == InitSchedule /\ [][NextSchedule]_vars

(***************************************************************************)
(* get_time_limit examined on its own.  Times are whole numbers of 10^-7 s  *)
(* so that every product the function forms is exact: a clock of m          *)
(* milliseconds times the fraction 0.01 is m * 100 units, 0.015 is m * 150, *)
(* and so on.  The clocks arrive in milliseconds, initial and increment in  *)
(* seconds.                                                                 *)
(***************************************************************************)
\* h hundredths of a second
Hundredths(h) == h * 100000

Min(a, b) == IF a <= b THEN a ELSE b

Max(a, b) == IF a >= b THEN a ELSE b

\* the band chain without its branch for totals up to 900 s
BandNoLongBand(initial, increment) ==
  IF initial <= 60 /\ increment = 0
    THEN [cap |-> Hundredths(84), per_ms |-> 100, depth |-> 30]
  ELSE IF initial <= 60
    THEN [cap |-> Hundredths(86), per_ms |-> 100, depth |-> 30]
  ELSE IF initial + increment * 40 <= 180
    THEN [cap |-> Hundredths(90), per_ms |-> 150, depth |-> 45]
  ELSE IF initial + increment * 40 <= 480
    THEN [cap |-> Hundredths(200), per_ms |-> 300, depth |-> 35]
  ELSE [cap |-> Hundredths(1500), per_ms |-> 500, depth |-> 35]

\* the band chain without its first branch: the increment is not looked at
BandIgnoringIncrement(initial, increment) ==
  IF initial <= 60
    THEN [cap |-> Hundredths(86), per_ms |-> 100, depth |-> 30]
  ELSE IF initial + increment * 40 <= 180
    THEN [cap |-> Hundredths(90), per_ms |-> 150, depth |-> 45]
  ELSE IF initial + increment * 40 <= 480
    THEN [cap |-> Hundredths(200), per_ms |-> 300, depth |-> 35]
  ELSE IF initial + increment * 40 <= 900
    THEN [cap |-> Hundredths(500), per_ms |-> 400, depth |-> 35]
  ELSE [cap |-> Hundredths(1500), per_ms |-> 500, depth |-> 35]

\* the if/elif chain: the cap, the fraction of the remaining clock (in units
\* per millisecond of clock) and the depth of the time control
Band(initial, increment) ==
  IF initial <= 60 /\ increment = 0
    THEN [cap |-> Hundredths(84), per_ms |-> 100, depth |-> 30]
  ELSE IF initial <= 60
    THEN [cap |-> Hundredths(86), per_ms |-> 100, depth |-> 30]
  ELSE IF initial + increment * 40 <= 180
    THEN [cap |-> Hundredths(90), per_ms |-> 150, depth |-> 45]
  ELSE IF initial + increment * 40 <= 480
    THEN [cap |-> Hundredths(200), per_ms |-> 300, depth |-> 35]
  ELSE IF initial + increment * 40 <= 900
    THEN [cap |-> Hundredths(500), per_ms |-> 400, depth |-> 35]
  ELSE [cap |-> Hundredths(1500), per_ms |-> 500, depth |-> 35]

\* time_left = wtime if bot_is_white else btime
TimeLeft(a) == IF a.bot_is_white THEN a.wtime ELSE a.btime

\* if moves_played < 12 and initial <= 60: max(time_limit * 0.85, 0.82)
Dampened(tl, initial, moves_played) ==
  IF moves_played < 12 /\ initial <= 60
    THEN Max((tl * 85) \div 100, Hundredths(82))
    ELSE tl

\* the last assignment left out
Unfloored(tl) == tl

\* time_limit = max(0.82, time_limit)
Floored(tl) == Max(Hundredths(82), tl)

\* the body of the try statement
Computed(a) ==
  LET b == Band(a.initial, a.increment)
      tl == Min(b.cap, TimeLeft(a) * b.per_ms)
  IN  [fn |-> "get_time_limit",
       time_limit |-> Floored(Dampened(tl, a.initial, a.moves_played)),
       depth |-> b.depth]

\* the except clause: return 3.88, 45
Fallback == [fn |-> "get_time_limit", time_limit |-> Hundredths(388),
             depth |-> 45]

\* a manual return that keeps the lower limit of the computed one
ManualFloored(a) ==
  [fn |-> "get_time_limit", time_limit |-> Floored(a.manual_time_limit),
   depth |-> a.manual_depth]

\* return self.manual_time_limit, self.manual_depth
ManualResult(a) ==
  [fn |-> "get_time_limit", time_limit |-> a.manual_time_limit,
   depth |-> a.manual_depth]

\* a.malformed: some value the try statement reads has a type its
\* arithmetic or its comparisons reject, so that the body raises
get_time_limit(a) ==
  IF a.manual_mode THEN ManualResult(a)
  ELSE IF a.malformed THEN Fallback
  ELSE Computed(a)

\* the largest clock examined, in milliseconds
MaxClockMs == 3600000

\* remaining clocks in milliseconds, around the points where a cap or the
\* lower limit takes over
Clocks == {0, 1000, 20000, 60000, 82000, 84000, 90000, 125000, 600000,
           MaxClockMs}

OtherClocks == {0, 300000}

Initials == {30, 60, 61, 180, 300, 600, 900, 1800}

Increments == {0, 1, 2, 5, 10}

Plies == {0, 11, 12, 20}

\* manual_mode with manual_time_limit and manual_depth: the values of
\* __init__, those the launchers assign, and the limits of
\* set_speed_settings
ManualSettings ==
  {[mode |-> FALSE, time_limit |-> Hundredths(10), depth |-> 20],
   [mode |-> TRUE, time_limit |-> Hundredths(10), depth |-> 20],
   [mode |-> TRUE, time_limit |-> Hundredths(10), depth |-> 35],
   [mode |-> TRUE, time_limit |-> Hundredths(10), depth |-> 50],
   [mode |-> TRUE, time_limit |-> Hundredths(500), depth |-> 1]}

AllocatorInputs ==
  {[fn |-> "get_time_limit",
    manual_mode |-> m.mode, manual_time_limit |-> m.time_limit,
    manual_depth |-> m.depth,
    wtime |-> IF w THEN c ELSE o, btime |-> IF w THEN o ELSE c,
    bot_is_white |-> w, initial |-> i, increment |-> inc,
    moves_played |-> n, malformed |-> bad] :
     m \in ManualSettings, c \in Clocks, o \in OtherClocks, w \in BOOLEAN,
     i \in Initials, inc \in Increments, n \in Plies, bad \in BOOLEAN}

InitAllocator ==
  /\ current_game_id = NoId
  /\ challenge_accepted = FALSE
  /\ winding_down = FALSE
  /\ final_game_played = FALSE
  /\ should_stop = FALSE
  /\ blocklist = {}
  /\ use_fairy_stockfish = FALSE
  /\ arena_mode = FALSE
  /\ can_challenge_bots = TRUE
  /\ can_challenge_users = TRUE
  /\ winddown_hours = 11
  /\ max_runtime_hours = 12
  /\ auto_challenge_bots = TRUE
  /\ challenge_users = <<>>
  /\ pc = "config"
  /\ idx = 1
  /\ setter_calls = 0
  /\ crb = NoCrb
  /\ handling = {}
  /\ cleanups = 0
  /\ now = 0
  /\ status = [i \in Ids |-> "unused"]
  /\ queue = <<>>
  /\ nextId = 1
  /\ calls = <<>>
  /\ last = NoLast
  /\ accepted_id = 0
  /\ args \in AllocatorInputs
  /\ ret = NoRet
  /\ stream = <<>>
  /\ frame = NoFrame
  /\ log = <<>>
  /\ blocklist_file = Written(blocklist)
  /\ storage = "ok"

\* a call of get_time_limit: it assigns nothing
GetTimeLimit ==
  /\ args.fn = "get_time_limit"
  /\ ret = NoRet
  /\ ret' = get_time_limit(args)
  /\ UNCHANGED <<session, settings, sched, runargs, ctl, env, hist, args, play, disk>>

NextAllocator == GetTimeLimit

SpecAllocator == InitAllocator /\ [][NextAllocator]_vars

(***************************************************************************)
(* The books.  A table maps the FEN of a position to the moves stored for   *)
(* it; a lookup draws one of them (random.choice) or answers None.          *)
(***************************************************************************)
StartFen == "rnbqkbnr/pppppppp/8/8/8/8/PPPPPPPP/RNBQKBNR w KQkq - 0 1"

\* opening_book.OPENING_BOOK
OPENING_BOOK ==
  (StartFen :> <<"e2e4", "d2d4", "c2c4", "g1f3">>)
  @@ ("rnbqkbnr/pppppppp/8/8/4P3/8/PPPP1PPP/RNBQKBNR b KQkq e3 0 1"
        :> <<"e7e5", "c7c5", "e7e6", "c7c6">>)
  @@ ("r1bqkbnr/pppp1ppp/2n5/1B2p3/4P3/5N2/PPPP1PPP/RNBQK2R b KQkq - 3 3"
        :> <<"a7a6", "g8f6", "f8c5">>)
  @@ ("rnbqkbnr/pp1ppppp/8/2p5/4P3/8/PPPP1PPP/RNBQKBNR w KQkq c6 0 2"
        :> <<"g1f3", "b1c3", "d2d4">>)
  @@ ("rnbqkbnr/pppp1ppp/4p3/8/4P3/8/PPPP1PPP/RNBQKBNR w KQkq - 0 2"
        :> <<"d2d4", "d2d3", "b1c3">>)
  @@ ("rnbqkbnr/pp1ppppp/2p5/8/4P3/8/PPPP1PPP/RNBQKBNR w KQkq - 0 2"
        :> <<"d2d4", "b1c3", "d2d3">>)
  @@ ("rnbqkbnr/pppppppp/8/8/3P4/8/PPP1PPPP/RNBQKBNR b KQkq d3 0 1"
        :> <<"g8f6", "d7d5", "e7e6", "c7c5">>)
  @@ ("rnbqkbnr/ppp1pppp/8/3p4/2PP4/8/PP2PPPP/RNBQKBNR b KQkq c3 0 2"
        :> <<"e7e6", "c7c6", "d5c4">>)
  @@ ("rnbqkb1r/pppppp1p/5np1/8/2PP4/8/PP2PPPP/RNBQKBNR w KQkq - 2 3"
        :> <<"b1c3", "g1f3", "e2e4">>)
  @@ ("rnbqkbnr/pppppppp/8/8/2P5/8/PP1PPPPP/RNBQKBNR b KQkq c3 0 1"
        :> <<"g8f6", "e7e5", "c7c5">>)

\* middlegame_book.MIDDLEGAME_PATTERNS
MIDDLEGAME_PATTERNS ==
  ("r1bq1rk1/pp1nbppp/2p1pn2/3p4/2PP4/2N1PN2/PP2BPPP/R1BQ1RK1 w - - 0 9"
     :> <<"d4d5">>)
  @@ ("r1bq1rk1/pp1nbppp/2p1pn2/3p4/2PP4/2N1PN2/PP2BPPP/R1BQK2R w KQ - 0 9"
        :> <<"b2b4">>)

\* endgame_book.ENDGAME_BOOK
ENDGAME_BOOK ==
  ("8/8/8/8/1k6/8/1P6/1K6 w - - 0 1" :> <<"b1c2">>)
  @@ ("8/8/8/8/4k3/8/4P3/4K3 b - - 0 1" :> <<"e4d5">>)
  @@ ("8/8/8/3k4/8/3K4/8/8 w - - 0 1" :> <<"d3d4">>)

\* variant_opening_books: the tables of the variants
CRAZYHOUSE_BOOK ==
  ("rnbqkbnr/pppppppp/8/8/8/8/PPPPPPPP/RNBQKBNR[] w KQkq - 0 1"
     :> <<"e2e4", "d2d4", "g1f3">>)
  @@ ("rnbqkbnr/pppppppp/8/8/4P3/8/PPPP1PPP/RNBQKBNR[] b KQkq e3 0 1"
        :> <<"e7e5", "c7c5", "g8f6">>)
  @@ ("rnbqkbnr/pppp1ppp/8/4p3/4P3/8/PPPP1PPP/RNBQKBNR[] w KQkq e6 0 2"
        :> <<"g1f3", "b1c3", "f1c4">>)

KING_OF_THE_HILL_BOOK ==
  (StartFen :> <<"e2e4", "d2d4", "g1f3">>)
  @@ ("rnbqkbnr/pppppppp/8/8/4P3/8/PPPP1PPP/RNBQKBNR b KQkq e3 0 1"
        :> <<"e7e5", "d7d5", "g8f6">>)
  @@ ("rnbqkbnr/pppp1ppp/8/4p3/4P3/8/PPPP1PPP/RNBQKBNR w KQkq e6 0 2"
        :> <<"g1f3", "d2d4", "b1c3">>)

THREE_CHECK_BOOK ==
  ("rnbqkbnr/pppppppp/8/8/8/8/PPPPPPPP/RNBQKBNR w KQkq - 3+3 0 1"
     :> <<"e2e4", "g1f3", "d2d4">>)
  @@ ("rnbqkbnr/pppppppp/8/8/4P3/8/PPPP1PPP/RNBQKBNR b KQkq e3 3+3 0 1"
        :> <<"e7e5", "g8f6", "d7d5">>)
  @@ ("rnbqkbnr/pppp1ppp/8/4p3/4P3/8/PPPP1PPP/RNBQKBNR w KQkq e6 3+3 0 2"
        :> <<"g1f3", "f1c4", "d2d4">>)

ANTICHESS_BOOK ==
  ("rnbqkbnr/pppppppp/8/8/8/8/PPPPPPPP/RNBQKBNR w - - 0 1"
     :> <<"e2e3", "d2d3", "g1f3">>)
  @@ ("rnbqkbnr/pppppppp/8/8/8/4P3/PPPP1PPP/RNBQKBNR b - - 0 1"
        :> <<"b7b6", "g8f6", "e7e6">>)
  @@ ("rnbqkbnr/p1pppppp/1p6/8/8/4P3/PPPP1PPP/RNBQKBNR w - - 0 2"
        :> <<"f1a6", "d1h5", "f1b5">>)

ATOMIC_BOOK ==
  (StartFen :> <<"g1f3", "e2e3", "d2d4">>)
  @@ ("rnbqkbnr/pppppppp/8/8/8/5N2/PPPPPPPP/RNBQKB1R b KQkq - 1 1"
        :> <<"g8f6", "e7e6", "d7d5">>)
  @@ ("rnbqkbnr/pppppppp/8/8/3P4/8/PPP1PPPP/RNBQKBNR b KQkq d3 0 1"
        :> <<"g8f6", "e7e6", "d7d5">>)

HORDE_BOOK ==
  ("rnbqkbnr/pppppppp/8/1PP2PP1/PPPPPPPP/PPPPPPPP/PPPPPPPP/PPPPPPPP w kq - 0 1"
     :> <<"e5e6", "a5a6", "h5h6">>)
  @@ ("rnbqkbnr/pppppppp/4P3/1PP2PP1/PPPPPPPP/PPPPPPPP/PPPPPPPP/PPPPPPPP b kq - 0 1"
        :> <<"d7e6", "f7e6">>)

RACING_KINGS_BOOK ==
  ("8/8/8/8/8/8/krbnNBRK/qrbnNBRQ w - - 0 1" :> <<"b2c3", "f2e3", "h2g3">>)
  @@ ("8/8/8/8/8/2N5/krbn1BRK/qrbnNBRQ b - - 1 1"
        :> <<"b1c2", "a1b2", "c1d2">>)

\* CHESS960_BOOK = {}
CHESS960_BOOK == <<>>

\* random.choice(moves)
Choice(moves) == {moves[i] : i \in 1..Len(moves)}

\* a lookup that draws from the whole table, whatever the position
LookupAnyEntry(book, fen) ==
  IF fen \in DOMAIN book
    THEN UNION {Choice(book[k]) : k \in DOMAIN book}
    ELSE {None}

\* what a lookup of fen in a table can answer
Lookup(book, fen) ==
  IF fen \in DOMAIN book THEN Choice(book[fen]) ELSE {None}

\* opening_book.get_opening_move
get_opening_move(fen) == Lookup(OPENING_BOOK, fen)

\* middlegame_book.get_middlegame_move
get_middlegame_move(fen, moves_count) ==
  IF 10 <= moves_count /\ moves_count <= 30
    THEN Lookup(MIDDLEGAME_PATTERNS, fen)
    ELSE {None}

\* endgame_book.get_endgame_move
get_endgame_move(fen) == Lookup(ENDGAME_BOOK, fen)

\* variant_opening_books.get_variant_opening_move
get_variant_opening_move(v, fen) ==
  CASE v = "crazyhouse" -> Lookup(CRAZYHOUSE_BOOK, fen)
    [] v = "kingOfTheHill" -> Lookup(KING_OF_THE_HILL_BOOK, fen)
    [] v = "threeCheck" -> Lookup(THREE_CHECK_BOOK, fen)
    [] v = "antichess" -> Lookup(ANTICHESS_BOOK, fen)
    [] v = "atomic" -> Lookup(ATOMIC_BOOK, fen)
    [] v = "horde" -> Lookup(HORDE_BOOK, fen)
    [] v = "racingKings" -> Lookup(RACING_KINGS_BOOK, fen)
    [] v = "chess960" -> Lookup(CHESS960_BOOK, fen)
    [] OTHER -> {None}

(***************************************************************************)
(* The material of a position: for each colour the number of pieces of each *)
(* type on the board (what board.piece_map() holds, counted).               *)
(***************************************************************************)
Side(k, q, r, b, n, p) == [K |-> k, Q |-> q, R |-> r, B |-> b, N |-> n, P |-> p]

\* the pieces of one colour whose type is neither KING nor PAWN
Officers(side) == side.Q + side.R + side.B + side.N

\* a classifier that asks for queens of the white side only
is_endgame_white_queen(m) ==
  LET total_pieces == Officers(m.white) + Officers(m.black)
      has_queen == m.white.Q > 0
  IN  total_pieces <= 6 \/ (total_pieces <= 10 /\ ~has_queen)

\* endgame_book.is_endgame
is_endgame(m) ==
  LET white_pieces == Officers(m.white)
      black_pieces == Officers(m.black)
      total_pieces == white_pieces + black_pieces
      has_queen == m.white.Q > 0 \/ m.black.Q > 0
  IN  total_pieces <= 6 \/ (total_pieces <= 10 /\ ~has_queen)

\* the numbers of pieces of a type one side has in the positions examined
QueenCounts == {0, 1}
RookCounts == {0, 1, 2}
BishopCounts == {0, 2}
KnightCounts == {0, 1, 3}
PawnCounts == {0, 1, 8}

Sides ==
  {Side(1, q, r, b, n, p) : q \in QueenCounts, r \in RookCounts,
                            b \in BishopCounts, n \in KnightCounts,
                            p \in PawnCounts}

InitEndgame ==
  /\ current_game_id = NoId
  /\ challenge_accepted = FALSE
  /\ winding_down = FALSE
  /\ final_game_played = FALSE
  /\ should_stop = FALSE
  /\ blocklist = {}
  /\ use_fairy_stockfish = FALSE
  /\ arena_mode = FALSE
  /\ can_challenge_bots = TRUE
  /\ can_challenge_users = TRUE
  /\ winddown_hours = 11
  /\ max_runtime_hours = 12
  /\ auto_challenge_bots = TRUE
  /\ challenge_users = <<>>
  /\ pc = "config"
  /\ idx = 1
  /\ setter_calls = 0
  /\ crb = NoCrb
  /\ handling = {}
  /\ cleanups = 0
  /\ now = 0
  /\ status = [i \in Ids |-> "unused"]
  /\ queue = <<>>
  /\ nextId = 1
  /\ calls = <<>>
  /\ last = NoLast
  /\ accepted_id = 0
  /\ args \in {[fn |-> "is_endgame", board |-> [white |-> w, black |-> b]] :
                 w \in Sides, b \in Sides}
  /\ ret = NoRet
  /\ stream = <<>>
  /\ frame = NoFrame
  /\ log = <<>>
  /\ blocklist_file = Written(blocklist)
  /\ storage = "ok"

\* a call of is_endgame(board)
IsEndgame ==
  /\ args.fn = "is_endgame"
  /\ ret = NoRet
  /\ ret' = [fn |-> "is_endgame", result |-> is_endgame(args.board)]
  /\ UNCHANGED <<session, settings, sched, runargs, ctl, env, hist, args, play, disk>>

NextEndgame == IsEndgame

SpecEndgame == InitEndgame /\ [][NextEndgame]_vars

(***************************************************************************)
(* make_move.  The call replays the move list of the game state on a board  *)
(* of the variant; what the model keeps of the replayed position is its     *)
(* FEN, whether the game is over, its material, and which of the moves the  *)
(* tables store for that FEN are legal in it.                               *)
(***************************************************************************)
\* "book_move and chess.Move.from_uci(book_move) in board.legal_moves" left
\* out: the answer of the table is taken as it is
Unvalidated(book_move, legal_moves) == book_move

\* the answer of a table if it is a legal move of the position, else None
Validated(book_move, legal_moves) ==
  IF book_move # None /\ book_move \in legal_moves THEN book_move ELSE None

\* one "if" of the book phase: skipped when a move was found or the
\* condition fails, else the table is asked and its answer validated
Stage(s, book, applies, answers, legal_moves) ==
  IF s.move_uci # None \/ ~applies
    THEN {s}
    ELSE {[consulted |-> Append(s.consulted, [book |-> book, answer |-> r]),
           move_uci |-> Validated(r, legal_moves)] : r \in answers}

NoBookMove == [consulted |-> <<>>, move_uci |-> None]

\* the book phase of a standard game: opening, middlegame, endgame
StandardBooks(p) ==
  LET s1 == Stage(NoBookMove, "opening", p.moves_count <= 15,
                  get_opening_move(p.fen), p.legal)
      s2 == UNION {Stage(s, "middlegame",
                         10 <= p.moves_count /\ p.moves_count <= 30,
                         get_middlegame_move(p.fen, p.moves_count), p.legal)
                   : s \in s1}
  IN  UNION {Stage(s, "endgame", is_endgame(p.material),
                   get_endgame_move(p.fen), p.legal) : s \in s2}

\* the book phase of a game of another variant
VariantBooks(p) ==
  Stage(NoBookMove, "variant", p.moves_count <= 10,
        get_variant_opening_move(p.variant, p.fen), p.legal)

BookPhase(p) ==
  IF p.variant = "standard" THEN StandardBooks(p) ELSE VariantBooks(p)

\* engine.play: a move, no move, or a fault of the engine
EngineAnswers == {"bestmove", None, "raises"}

MoveResult(consulted, engine, limit, submitted, result) ==
  [fn |-> "make_move", consulted |-> consulted, engine |-> engine,
   limit |-> limit, submitted |-> submitted, result |-> result]

\* client.bots.make_move(game_id, move_uci) and the return: a call that
\* raises ends in the except clause
Submit(consulted, engine, limit, move_uci) ==
  {MoveResult(consulted, engine, limit, <<move_uci>>,
              IF ok THEN move_uci ELSE None) : ok \in BOOLEAN}

NoLimit == [fn |-> None]

\* make_move: every run it can take on position p with the clock data c
MakeMoveRuns(p, c) ==
  IF p.replay = "raises" \/ p.over
  THEN {MoveResult(<<>>, FALSE, NoLimit, <<>>, None)}
  ELSE UNION {
    IF s.move_uci # None
    THEN Submit(s.consulted, FALSE, NoLimit, s.move_uci)
    ELSE UNION {
      IF e \in {None, "raises"}
      THEN {MoveResult(s.consulted, TRUE, get_time_limit(c), <<>>, None)}
      ELSE Submit(s.consulted, TRUE, get_time_limit(c), e)
      : e \in EngineAnswers}
    : s \in BookPhase(p)}

\* the material of the starting position
FullSide == Side(1, 1, 2, 2, 2, 8)
FullBoard == [white |-> FullSide, black |-> FullSide]

Position(v, n, fen, legal, over, material) ==
  [variant |-> v, moves_count |-> n, replay |-> "ok", fen |-> fen,
   legal |-> legal, over |-> over, material |-> material]

\* standard games.  The positions after 9 to 31 plies are those of the
\* knights going out and home again (Nf3 Nf6 Nc3 Nc6 Ng1 Ng8 Nb1 Nb8, and
\* again); the FEN names an en passant square only when a capture there is
\* legal.
StandardPositions ==
  {Position("standard", 0, StartFen, {"e2e4", "d2d4", "c2c4", "g1f3"}, FALSE,
            FullBoard),
   Position("standard", 1,
            "rnbqkbnr/pppppppp/8/8/4P3/8/PPPP1PPP/RNBQKBNR b KQkq - 0 1",
            {}, FALSE, FullBoard),
   Position("standard", 2,
            "rnbqkbnr/pppp1ppp/4p3/8/4P3/8/PPPP1PPP/RNBQKBNR w KQkq - 0 2",
            {"d2d4", "d2d3", "b1c3"}, FALSE, FullBoard),
   Position("standard", 4,
            "rnb1kbnr/pppp1ppp/8/4p3/6Pq/5P2/PPPPP2P/RNBQKBNR w KQkq - 1 3",
            {}, TRUE, FullBoard),
   Position("standard", 9,
            "rnbqkbnr/pppppppp/8/8/8/5N2/PPPPPPPP/RNBQKB1R b KQkq - 9 5",
            {}, FALSE, FullBoard),
   Position("standard", 10,
            "rnbqkb1r/pppppppp/5n2/8/8/5N2/PPPPPPPP/RNBQKB1R w KQkq - 10 6",
            {}, FALSE, FullBoard),
   Position("standard", 15,
            "r1bqkbnr/pppppppp/2n5/8/8/8/PPPPPPPP/RNBQKBNR b KQkq - 15 8",
            {}, FALSE, FullBoard),
   Position("standard", 16,
            "r1bq1rk1/pp1nbppp/2p1pn2/3p4/2PP4/2N1PN2/PP2BPPP/R1BQ1RK1 w - - 0 9",
            {}, FALSE, FullBoard),
   Position("standard", 16,
            "r1bq1rk1/pp1nbppp/2p1pn2/3p4/2PP4/2N1PN2/PP2BPPP/R1BQK2R w KQ - 0 9",
            {"b2b4"}, FALSE, FullBoard),
   Position("standard", 30,
            "r1bqkbnr/pppppppp/2n5/8/8/2N5/PPPPPPPP/R1BQKBNR w KQkq - 30 16",
            {}, FALSE, FullBoard),
   Position("standard", 31,
            "r1bqkbnr/pppppppp/2n5/8/8/8/PPPPPPPP/RNBQKBNR b KQkq - 31 16",
            {}, FALSE, FullBoard),
   Position("standard", 118, "8/5k2/8/8/8/3K4/4P3/8 w - - 0 60", {}, FALSE,
            [white |-> Side(1, 0, 0, 0, 0, 1),
             black |-> Side(1, 0, 0, 0, 0, 0)])}

\* games of other variants; the last one is a chess960 game whose moves
\* cannot be replayed from the position chess.Board(chess960=True) starts in
VariantPositions ==
  {Position("crazyhouse", 0,
            "rnbqkbnr/pppppppp/8/8/8/8/PPPPPPPP/RNBQKBNR[] w KQkq - 0 1",
            {"e2e4", "d2d4", "g1f3"}, FALSE, FullBoard),
   Position("crazyhouse", 10,
            "rnbqkb1r/pppppppp/5n2/8/8/5N2/PPPPPPPP/RNBQKB1R[] w KQkq - 10 6",
            {}, FALSE, FullBoard),
   Position("crazyhouse", 11,
            "rnbqkb1r/pppppppp/5n2/8/8/2N2N2/PPPPPPPP/R1BQKB1R[] b KQkq - 11 6",
            {}, FALSE, FullBoard),
   Position("atomic", 0, StartFen, {"g1f3", "e2e3", "d2d4"}, FALSE, FullBoard),
   Position("horde", 0,
            "rnbqkbnr/pppppppp/8/1PP2PP1/PPPPPPPP/PPPPPPPP/PPPPPPPP/PPPPPPPP w kq - 0 1",
            {}, FALSE,
            [white |-> Side(0, 0, 0, 0, 0, 36), black |-> FullSide]),
   Position("chess960", 0, StartFen, {}, FALSE, FullBoard),
   [Position("chess960", 1, None, {}, FALSE, FullBoard)
      EXCEPT !.replay = "raises"]}

\* the clock data of the call: a 3+0 game with three minutes left, with the
\* settings of __init__ and with those of run_scheduled.py
MoveClocks ==
  {[fn |-> "get_time_limit",
    manual_mode |-> m, manual_time_limit |-> Hundredths(10),
    manual_depth |-> IF m THEN 50 ELSE 20,
    wtime |-> 180000, btime |-> 180000, bot_is_white |-> w,
    initial |-> 180, increment |-> 0, moves_played |-> 0,
    malformed |-> FALSE] : m \in BOOLEAN, w \in BOOLEAN}

InitMove ==
  /\ current_game_id \in Ids
  /\ challenge_accepted = FALSE
  /\ winding_down = FALSE
  /\ final_game_played = FALSE
  /\ should_stop = FALSE
  /\ blocklist = {}
  /\ use_fairy_stockfish \in BOOLEAN
  /\ arena_mode = FALSE
  /\ can_challenge_bots = TRUE
  /\ can_challenge_users = TRUE
  /\ winddown_hours = 11
  /\ max_runtime_hours = 12
  /\ auto_challenge_bots = TRUE
  /\ challenge_users = <<>>
  /\ pc = "game"
  /\ idx = 1
  /\ setter_calls = 0
  /\ crb = NoCrb
  /\ handling = {current_game_id}
  /\ cleanups = 0
  /\ now = 0
  /\ status = [i \in Ids |-> IF i = current_game_id THEN "started" ELSE "unused"]
  /\ queue = <<>>
  /\ nextId = 1
  /\ calls = <<>>
  /\ last = NoLast
  /\ accepted_id = 0
  /\ args \in {[fn |-> "make_move", position |-> p, clock |-> c] :
                 p \in StandardPositions
                       \cup (IF use_fairy_stockfish THEN VariantPositions
                             ELSE {}),
                 c \in MoveClocks}
  /\ ret = NoRet
  /\ stream = <<>>
  /\ frame = NoFrame
  /\ log = <<>>
  /\ blocklist_file = Written(blocklist)
  /\ storage = "ok"

\* a call of make_move
MakeMove ==
  /\ args.fn = "make_move"
  /\ ret = NoRet
  /\ ret' \in MakeMoveRuns(args.position, args.clock)
  /\ UNCHANGED <<session, settings, sched, runargs, ctl, env, hist, args, play, disk>>

NextMove == MakeMove

SpecMove == InitMove /\ [][NextMove]_vars

(***************************************************************************)
(* handle_game followed through the events of the game stream.  The move    *)
(* list of an event is kept as one token per move: "std" for a move the     *)
(* replay of is_our_turn accepts, "var" for a move of the variant that is   *)
(* not legal at that point of a standard game from the standard starting    *)
(* position (push_uci on chess.Board() raises).  In a horde game the first  *)
(* move is one: every pawn White can move stands on a square that is empty  *)
(* in the standard starting position.                                       *)
(***************************************************************************)
\* number of events the game stream delivers in one behaviour
MaxEvents == 3

GameVariants == {"standard", "horde"}

MoveLists(v) ==
  IF v = "standard"
    THEN {<<>>, <<"std">>, <<"std", "std">>}
    ELSE {<<>>, <<"var">>, <<"var", "std">>}

\* 'started' and one of the values a finished game has
Statuses == {"started", "mate"}

GameEvent(type, white, v, st, moves) ==
  [type |-> type, white |-> white, variant |-> v, status |-> st,
   moves |-> moves]

\* the events of a game of variant v in which the bot has the white pieces
\* or not: gameFull (with the side and the variant), gameState, chatLine
GameEvents(v, white) ==
  {GameEvent("gameFull", white, v, st, ms) : st \in Statuses, ms \in MoveLists(v)}
  \cup {GameEvent("gameState", FALSE, None, st, ms) :
          st \in Statuses, ms \in MoveLists(v)}
  \cup {GameEvent("chatLine", FALSE, None, None, <<>>)}

SeqsUpTo(S, n) == UNION {[1..k -> S] : k \in 0..n}

\* is_our_turn: the moves are replayed on chess.Board(); a move the replay
\* rejects makes the answer False, else the side to move is compared
is_our_turn(moves, bot_is_white) ==
  IF \E i \in 1..Len(moves) : moves[i] = "var"
    THEN FALSE
    ELSE (Len(moves) % 2 = 0) = bot_is_white

Tri(b) == IF b THEN "True" ELSE "False"

InitGame ==
  /\ current_game_id \in Ids
  /\ challenge_accepted = FALSE
  /\ winding_down = FALSE
  /\ final_game_played = FALSE
  /\ should_stop = FALSE
  /\ blocklist = {}
  /\ arena_mode = FALSE
  /\ can_challenge_bots = TRUE
  /\ can_challenge_users = TRUE
  /\ winddown_hours = 11
  /\ max_runtime_hours = 12
  /\ auto_challenge_bots = TRUE
  /\ challenge_users = <<>>
  /\ pc = "game"
  /\ idx = 1
  /\ setter_calls = 0
  /\ crb = NoCrb
  /\ handling = {current_game_id}
  /\ cleanups = 0
  /\ now = 0
  /\ status = [i \in Ids |-> IF i = current_game_id THEN "started" ELSE "unused"]
  /\ queue = <<>>
  /\ nextId = 1
  /\ calls = <<>>
  /\ last = NoLast
  /\ accepted_id = 0
  /\ args = NoArgs
  /\ ret = NoRet
  /\ \E v \in GameVariants, white \in BOOLEAN :
       /\ use_fairy_stockfish = (v # "standard")
       /\ stream \in SeqsUpTo(GameEvents(v, white), MaxEvents)
  /\ frame = NoFrame
  /\ log = <<>>
  /\ blocklist_file = Written(blocklist)
  /\ storage = "ok"

Logged(e, side, turn, invoked, moved) ==
  [ev |-> e, side |-> side, turn |-> turn, invoked |-> invoked,
   moved |-> moved]

\* handle_game returns: current_game_id is cleared, the main loop goes on
GameReturn(kind) ==
  /\ handling' = handling \ {current_game_id}
  /\ current_game_id' = ClearedGameId(current_game_id)
  /\ pc' = "loop"
  /\ last' = [NoLast EXCEPT !.type = kind, !.id = current_game_id]

\* a loop that is left when make_move returned None (not the code's)
LeftWhenNoMove(invoked, moved) == IF invoked /\ ~moved THEN "loop" ELSE "game"
\* where handle_game is after is_our_turn and make_move: the value make_move
\* returns is not looked at, the for loop reads the next event
AfterDecision(invoked, moved) == "game"

\* the body of the loop for a gameFull event; make_move, when it is called,
\* may or may not get a move submitted
OnGameFull(e) ==
  LET turn == is_our_turn(e.moves, e.white)
      invoked == e.status = "started" /\ turn
  IN  /\ frame' = [bot_is_white |-> Tri(e.white), variant |-> e.variant,
                   chat_sent |-> TRUE]
      /\ calls' = IF frame.chat_sent THEN <<>>
                  ELSE <<Call("chat", current_game_id, None, None, FALSE, TRUE)>>
      /\ \E moved \in BOOLEAN :
           /\ moved => invoked
           /\ log' = Append(log, Logged(e, Tri(e.white),
                                        IF e.status = "started" THEN Tri(turn)
                                        ELSE "None",
                                        invoked, moved))
           /\ pc' = AfterDecision(invoked, moved)
      /\ UNCHANGED <<current_game_id, handling, last>>

\* the body of the loop for a gameState event
OnGameState(e) ==
  IF e.status # "started"
  THEN \* break
       /\ log' = Append(log, Logged(e, frame.bot_is_white, "None", FALSE, FALSE))
       /\ GameReturn("return")
       /\ calls' = <<>>
       /\ UNCHANGED frame
  ELSE IF frame.bot_is_white = "None"
  THEN \* continue
       /\ log' = Append(log, Logged(e, "None", "None", FALSE, FALSE))
       /\ calls' = <<>>
       /\ UNCHANGED <<current_game_id, handling, pc, last, frame>>
  ELSE LET turn == is_our_turn(e.moves, frame.bot_is_white = "True")
       IN  /\ \E moved \in BOOLEAN :
                /\ moved => turn
                /\ log' = Append(log, Logged(e, frame.bot_is_white, Tri(turn),
                                             turn, moved))
                /\ pc' = AfterDecision(turn, moved)
           /\ calls' = <<>>
           /\ UNCHANGED <<current_game_id, handling, last, frame>>

\* the body of the loop for a chatLine event: it is printed
OnChatLine(e) ==
  /\ log' = Append(log, Logged(e, frame.bot_is_white, "None", FALSE, FALSE))
  /\ calls' = <<>>
  /\ UNCHANGED <<current_game_id, handling, pc, last, frame>>

\* the game stream delivers its next event
GameStreamEvent ==
  /\ pc = "game"
  /\ stream # <<>>
  /\ LET e == Head(stream)
     IN  CASE e.type = "gameFull" -> OnGameFull(e)
           [] e.type = "gameState" -> OnGameState(e)
           [] OTHER -> OnChatLine(e)
  /\ stream' = Tail(stream)
  /\ UNCHANGED <<challenge_accepted, winding_down, final_game_played,
                 should_stop, settings, sched, runargs, idx, setter_calls, crb,
                 cleanups, env, accepted_id, fn, disk>>

\* the game stream is exhausted: the for loop ends
GameStreamEnds ==
  /\ pc = "game"
  /\ stream = <<>>
  /\ GameReturn("streamEnd")
  /\ calls' = <<>>
  /\ UNCHANGED <<challenge_accepted, winding_down, final_game_played,
                 should_stop, settings, sched, runargs, idx, setter_calls, crb,
                 cleanups, env, accepted_id, fn, stream, frame, log,
                 disk>>

\* the game stream or the handling of an event raises an Exception: the
\* except clause; the events not yet read are lost with the stream
GameStreamFault ==
  /\ pc = "game"
  /\ GameReturn("gameFault")
  /\ calls' = <<>>
  /\ UNCHANGED <<challenge_accepted, winding_down, final_game_played,
                 should_stop, settings, sched, runargs, idx, setter_calls, crb,
                 cleanups, env, accepted_id, fn, stream, frame, log,
                 disk>>

NextGame == GameStreamEvent \/ GameStreamEnds \/ GameStreamFault

SpecGame == InitGame /\ [][NextGame]_vars

(***************************************************************************)
(* challenge_user examined on its own: the call is made on an object in any *)
(* state of the fields it reads.                                            *)
(***************************************************************************)
InitChallengeUser ==
  /\ current_game_id \in {NoId} \cup Ids
  /\ challenge_accepted = FALSE
  /\ winding_down = FALSE
  /\ final_game_played = FALSE
  /\ should_stop = FALSE
  /\ blocklist \in SUBSET {Lower(n) : n \in Names}
  /\ use_fairy_stockfish = FALSE
  /\ arena_mode \in BOOLEAN
  /\ can_challenge_bots \in BOOLEAN
  /\ can_challenge_users \in BOOLEAN
  /\ winddown_hours = 11
  /\ max_runtime_hours = 12
  /\ auto_challenge_bots = TRUE
  /\ challenge_users = <<>>
  /\ pc = "config"
  /\ idx = 1
  /\ setter_calls = 0
  /\ crb = NoCrb
  /\ handling = {}
  /\ cleanups = 0
  /\ now = 0
  /\ status = [i \in Ids |-> "unused"]
  /\ queue = <<>>
  /\ nextId = 1
  /\ calls = <<>>
  /\ last = NoLast
  /\ accepted_id = 0
  /\ args \in {[fn |-> "challenge_user", username |-> u, rated |-> r] :
                 u \in Names, r \in BOOLEAN}
  /\ ret = NoRet
  /\ stream = <<>>
  /\ frame = NoFrame
  /\ log = <<>>
  /\ blocklist_file = Written(blocklist)
  /\ storage = "ok"

\* a call of challenge_user(username, rated)
ChallengeUser ==
  /\ args.fn = "challenge_user"
  /\ ret = NoRet
  /\ \E r \in ChallengeUserRuns(args.username, args.rated, CanCreate) :
       /\ ret' = [fn |-> "challenge_user", ok |-> r.ok, calls |-> r.calls]
       /\ calls' = r.calls
       /\ status' = Registered(status, r.ok)
       /\ nextId' = IF r.ok THEN nextId + 1 ELSE nextId
  /\ UNCHANGED <<session, settings, sched, runargs, ctl, now, queue, last,
                 accepted_id, args, play, disk>>

NextChallengeUser == ChallengeUser

SpecChallengeUser == InitChallengeUser /\ [][NextChallengeUser]_vars

(***************************************************************************)
(* challenge_random_bot examined on its own: the call is made with a retry  *)
(* count of 0..MaxRetries on an object in any state of the fields it reads, *)
(* and runs frame by frame until it returns.                                *)
(***************************************************************************)
InitRandomBot ==
  /\ current_game_id \in {NoId} \cup Ids
  /\ challenge_accepted = FALSE
  /\ winding_down = FALSE
  /\ final_game_played = FALSE
  /\ should_stop = FALSE
  /\ blocklist \in SUBSET {Lower(n) : n \in Names}
  /\ use_fairy_stockfish = FALSE
  /\ arena_mode \in BOOLEAN
  /\ can_challenge_bots \in BOOLEAN
  /\ can_challenge_users \in BOOLEAN
  /\ winddown_hours = 11
  /\ max_runtime_hours = 12
  /\ auto_challenge_bots = TRUE
  /\ challenge_users = <<>>
  /\ pc = "crb"
  /\ idx = 1
  /\ setter_calls = 0
  /\ crb \in {[retries |-> n, rated |-> r, origin |-> o, ev |-> NoEvent,
               tried |-> <<>>] :
                n \in 0..MaxRetries, r \in BOOLEAN, o \in {"startup", "finish"}}
  /\ handling = {}
  /\ cleanups = 0
  /\ now = 0
  /\ status = [i \in Ids |-> "unused"]
  /\ queue = <<>>
  /\ nextId = 1
  /\ calls = <<>>
  /\ last = NoLast
  /\ accepted_id = 0
  /\ args = NoArgs
  /\ ret = NoRet
  /\ stream = <<>>
  /\ frame = NoFrame
  /\ log = <<>>
  /\ blocklist_file = Written(blocklist)
  /\ storage = "ok"

NextRandomBot == CrbFrame

\* the call runs in run's thread: a frame that has been entered is executed
SpecRandomBot == InitRandomBot /\ [][NextRandomBot]_vars /\ WF_vars(CrbFrame)

(***************************************************************************)
(* The blocklist operations examined on their own: any sequence of          *)
(* add_to_blocklist, remove_from_blocklist and is_blocked calls on an       *)
(* object whose blocklist was loaded from the file, while the file system   *)
(* may stop taking writes.                                                  *)
(***************************************************************************)
\* the names the operations are called with: both letter cases
CallNames == Names \cup {Lower(n) : n \in Names}
\* what the blocklist file may hold when the bot is constructed: nothing
\* readable, or a list written by the bot or by hand
StartupFiles == {Truncated, Written({}), Written({"Ann"}), Written({"ann"})}
StorageStates == {"ok", "readonly", "full"}

InitBlocklist ==
  /\ current_game_id = NoId
  /\ challenge_accepted = FALSE
  /\ winding_down = FALSE
  /\ final_game_played = FALSE
  /\ should_stop = FALSE
  /\ blocklist_file \in StartupFiles
  /\ blocklist = _load_blocklist(blocklist_file)
  /\ storage \in StorageStates
  /\ use_fairy_stockfish = FALSE
  /\ arena_mode = FALSE
  /\ can_challenge_bots = TRUE
  /\ can_challenge_users = TRUE
  /\ winddown_hours = 11
  /\ max_runtime_hours = 12
  /\ auto_challenge_bots = TRUE
  /\ challenge_users = <<>>
  /\ pc = "config"
  /\ idx = 1
  /\ setter_calls = 0
  /\ crb = NoCrb
  /\ handling = {}
  /\ cleanups = 0
  /\ now = 0
  /\ status = [i \in Ids |-> "unused"]
  /\ queue = <<>>
  /\ nextId = 1
  /\ calls = <<>>
  /\ last = NoLast
  /\ accepted_id = 0
  /\ args = NoArgs
  /\ ret = NoRet
  /\ stream = <<>>
  /\ frame = NoFrame
  /\ log = <<>>

\* what a blocklist call leaves in ret: its result, and the set it met
BlocklistReturn(op, username, result) ==
  [fn |-> op, username |-> username, result |-> result, before |-> blocklist]

\* the variables no blocklist call touches
BlocklistFrame ==
  UNCHANGED <<session, use_fairy_stockfish, arena_mode, can_challenge_bots,
              can_challenge_users, sched, runargs, ctl, env, hist, play, storage>>

\* a call of add_to_blocklist(username)
AddCall(username) ==
  /\ LET r == add_to_blocklist(blocklist, blocklist_file, storage, username)
     IN  /\ blocklist' = r.blocklist
         /\ blocklist_file' = r.file
         /\ ret' = BlocklistReturn("add_to_blocklist", username, r.result)
  /\ args' = [fn |-> "add_to_blocklist", username |-> username]
  /\ BlocklistFrame

\* a call of remove_from_blocklist(username)
RemoveCall(username) ==
  /\ LET r == remove_from_blocklist(blocklist, blocklist_file, storage, username)
     IN  /\ blocklist' = r.blocklist
         /\ blocklist_file' = r.file
         /\ ret' = BlocklistReturn("remove_from_blocklist", username, r.result)
  /\ args' = [fn |-> "remove_from_blocklist", username |-> username]
  /\ BlocklistFrame

\* a call of is_blocked(username)
IsBlockedCall(username) ==
  /\ ret' = BlocklistReturn("is_blocked", username, IsBlocked(blocklist, username))
  /\ args' = [fn |-> "is_blocked", username |-> username]
  /\ UNCHANGED <<blocklist, blocklist_file>>
  /\ BlocklistFrame

\* the file system starts or stops taking writes
StorageChanges(st) ==
  /\ st # storage
  /\ storage' = st
  /\ UNCHANGED <<session, settings, sched, runargs, ctl, env, hist, fn, play,
                 blocklist_file>>

NextBlocklist ==
  \/ \E u \in CallNames : AddCall(u)
  \/ \E u \in CallNames : RemoveCall(u)
  \/ \E u \in CallNames : IsBlockedCall(u)
  \/ \E st \in StorageStates : StorageChanges(st)

SpecBlocklist == InitBlocklist /\ [][NextBlocklist]_vars

(***************************************************************************)
(* Construction and the engine swap examined on their own: LichessBot(...)  *)
(* is called in a process, and set_engine_settings is called on the object  *)
(* it returned.  The account service and the engine files may fail.         *)
(***************************************************************************)
InitStartup ==
  /\ current_game_id = NoId
  /\ challenge_accepted = FALSE
  /\ winding_down = FALSE
  /\ final_game_played = FALSE
  /\ should_stop = FALSE
  /\ blocklist = {}
  /\ use_fairy_stockfish = FALSE
  /\ arena_mode = FALSE
  /\ can_challenge_bots = TRUE
  /\ can_challenge_users = TRUE
  /\ winddown_hours = 11
  /\ max_runtime_hours = 12
  /\ auto_challenge_bots = TRUE
  /\ challenge_users = <<>>
  /\ pc = "new"
  /\ idx = 1
  /\ setter_calls = 0
  /\ crb = NoCrb
  /\ handling = {}
  /\ cleanups = 0
  /\ now = 0
  /\ status = [i \in Ids |-> "unused"]
  /\ queue = <<>>
  /\ nextId = 1
  /\ calls = <<>>
  /\ last = NoLast
  /\ accepted_id = 0
  /\ args = NoArgs
  /\ ret = NoRet
  /\ stream = <<>>
  /\ frame = NoFrame
  /\ log = <<>>
  /\ blocklist_file \in StartupFiles
  /\ storage \in StorageStates

\* what __init__ leaves behind: whether the account was verified, the engine
\* it started, and the exit of the process if it did not return
Constructed(verified, e) ==
  [fn |-> "__init__", verified |-> verified, engine |-> e.engine,
   exited |-> e.exited, code |-> e.code]

\* LichessBot(token): _verify_bot_account, _initialize_engine, _load_blocklist
Construct ==
  /\ pc = "new"
  /\ args' = [fn |-> "__init__"]
  /\ \E verified \in BOOLEAN, started \in BOOLEAN :
       IF ~verified
       THEN /\ ret' = Constructed(FALSE, [engine |-> None, exited |-> TRUE,
                                          code |-> 1])
            /\ pc' = "exited"
            /\ UNCHANGED blocklist
       ELSE LET e == _initialize_engine(use_fairy_stockfish, started)
            IN  /\ ret' = Constructed(TRUE, e)
                /\ pc' = IF e.exited THEN "exited" ELSE "config"
                /\ blocklist' = IF e.exited THEN blocklist
                                ELSE _load_blocklist(blocklist_file)
  /\ UNCHANGED <<session, use_fairy_stockfish, arena_mode, can_challenge_bots,
                 can_challenge_users, sched, runargs, idx, setter_calls, crb,
                 handling, cleanups, env, hist, play, disk>>

\* a call of set_engine_settings(use_fairy_stockfish=arg)
SetEngineCall(arg) ==
  /\ pc = "config"
  /\ args' = [fn |-> "set_engine_settings", use_fairy_stockfish |-> arg,
              before |-> use_fairy_stockfish]
  /\ \E started \in BOOLEAN :
       LET r == set_engine_settings(use_fairy_stockfish, arg, started)
       IN  /\ use_fairy_stockfish' = r.use_fairy_stockfish
           /\ pc' = IF r.exited THEN "exited" ELSE pc
           /\ ret' = [fn |-> "set_engine_settings", changed |-> r.changed,
                      quit |-> r.quit, engine |-> r.engine,
                      exited |-> r.exited, code |-> r.code]
  /\ UNCHANGED <<session, blocklist, arena_mode, can_challenge_bots,
                 can_challenge_users, sched, runargs, idx, setter_calls, crb,
                 handling, cleanups, env, hist, play, disk>>

NextStartup ==
  \/ Construct
  \/ \E arg \in OptBool : SetEngineCall(arg)

SpecStartup == InitStartup /\ [][NextStartup]_vars

(***************************************************************************)
(* The run with an event stream that never runs dry and a clock that goes   *)
(* on: the service also sends events of other types, every call the bot     *)
(* makes returns, every handle_game call returns (the game finishes or its  *)
(* stream ends), a delivered event is handled, and time passes.             *)
(***************************************************************************)
NextLive == Next \/ OtherEvent

Fairness ==
  /\ WF_vars(StartupChallenge)
  /\ WF_vars(CrbFrame)
  /\ WF_vars(Resume)
  /\ WF_vars(IterShutdown \/ IterWinddownChallenge \/ IterDispatch)
  /\ WF_vars(HandleGameReturns \/ HandleGameFault)
  /\ WF_vars(OtherEvent)
  /\ WF_vars(\E t \in TimePoints : Advance(t))

SpecLive == Init /\ [][NextLive]_vars /\ Fairness

(***************************************************************************)
(* Properties.  They read the history of the last step: calls holds the     *)
(* calls the step made, last the event it dispatched and the session fields *)
(* it met (cur, latch, acc: current_game_id, challenge_accepted and         *)
(* accepted_id before the step; wd: winding_down at the decision).          *)
(***************************************************************************)
\* the step made exactly one call, a decline of challenge id for this reason
OneDecline(cs, id, reason) ==
  /\ Len(cs) = 1
  /\ cs[1].op = "decline"
  /\ cs[1].id = id
  /\ cs[1].reason = reason

\* the games the bot plays in that are started and unfinished on the server
OpenGames == {i \in Ids : status[i] = "started"}

\* C1: in every reachable state current_game_id is null or one game id, and
\* handle_game is entered only when no earlier handle_game call is still
\* running: at most one call has not returned, it is the call for
\* current_game_id, and run's thread is inside it.
C1_OneCurrentGame ==
  /\ current_game_id \in Ids \cup {NoId}
  /\ Cardinality(handling) <= 1
  /\ handling # {} => (pc = "game" /\ handling = {current_game_id})
  /\ pc # "game" => handling = {}

\* C1 witness: the bot is inside handle_game while a further gameStart event
\* waits in the event stream.
C1_Witness ==
  /\ pc = "game"
  /\ handling = {current_game_id}
  /\ queue # <<>>
  /\ Head(queue).type = "gameStart"
  /\ Head(queue).id # current_game_id

\* C2: at most one game the bot plays in is started and unfinished on the
\* server, and no createChallenge call is made while the acceptance latch is
\* set.
C2_OneOpenGame ==
  /\ Cardinality(OpenGames) <= 1
  /\ challenge_accepted => Creates(calls) = {}

\* C3: no accept call is made while winding_down is true; a challenge event
\* dispatched while winding_down is true gets exactly one call, a decline with
\* reason 'later', whatever the other fields are.
C3_NoAcceptWhileWindingDown ==
  /\ winding_down => Accepts(calls) = {}
  /\ (last.type = "challenge" /\ last.wd) =>
       /\ OneDecline(calls, last.id, "later")
       /\ challenge_accepted = last.latch

\* C3 witness: a challenge that would otherwise be accepted (idle bot, latch
\* clear, unblocked challenger, standard chess, arena mode off) was dispatched
\* while winding down.
C3_Witness ==
  /\ last.type = "challenge"
  /\ last.wd
  /\ last.cur = NoId
  /\ ~last.latch
  /\ Lower(last.challenger) \notin blocklist
  /\ last.variant = "standard"
  /\ ~arena_mode
  /\ calls # <<>>

C4_Step ==
  \* while the latch is set no accept call is made
  /\ challenge_accepted => Accepts(calls') = {}
  \* a challenge dispatched while the latch is set is declined 'later'
  /\ (last'.type = "challenge" /\ last'.latch) =>
       (OneDecline(calls', last'.id, "later") /\ challenge_accepted')
  \* the latch falls only when a gameStart event is processed
  /\ (challenge_accepted /\ ~challenge_accepted') => last'.type = "gameStart"
  \* the latch rises only with a successful accept call for the challenge
  /\ (~challenge_accepted /\ challenge_accepted') =>
       /\ last'.type = "challenge"
       /\ \E i \in Accepts(calls') : calls'[i].ok /\ calls'[i].id = last'.id
  \* a failed accept call leaves the latch false
  /\ (last'.type = "challenge" /\ ~last'.latch
        /\ \A i \in Accepts(calls') : ~calls'[i].ok) => ~challenge_accepted'

\* C4: once an accept call succeeded no further accept call is made until a
\* gameStart event is processed, every challenge in between is declined
\* 'later', and the latch is set only by a successful accept call.
C4_NoDoubleAccept == [][C4_Step]_vars

\* C4 witness: a challenge was dispatched by an idle bot, not winding down,
\* between a successful accept and the gameStart event.
C4_Witness ==
  /\ last.type = "challenge"
  /\ last.latch
  /\ ~last.wd
  /\ last.cur = NoId
  /\ Declines(calls) # {}

\* the step made an accept call for challenge id first and, if that call
\* failed, at most one more call, a decline with reason 'generic'; the latch is
\* set exactly if the accept call succeeded
AcceptAttempt(cs, id) ==
  /\ Len(cs) \in {1, 2}
  /\ cs[1].op = "accept"
  /\ cs[1].id = id
  /\ challenge_accepted = cs[1].ok
  /\ Len(cs) = 2 =>
       /\ ~cs[1].ok
       /\ cs[2].op = "decline"
       /\ cs[2].id = id
       /\ cs[2].reason = "generic"

C6_LatchClearedByItsGame ==
  (last.type = "gameStart" /\ last.latch) =>
    (challenge_accepted <=> last.id # last.acc)

\* C7: with the latch clear, no current game, not winding down, arena mode off
\* and an unblocked challenger, a challenge in a variant of the active engine's
\* set (standard and chess960 for the default engine, all nine for the
\* alternate one) is answered with an accept call, and only a variant outside
\* that set is declined 'variant'.
C7_ActiveEngineVariantsAccepted ==
  (/\ last.type = "challenge"
   /\ ~last.wd
   /\ last.cur = NoId
   /\ ~last.latch
   /\ Lower(last.challenger) \notin blocklist
   /\ ~arena_mode) =>
    IF last.variant \in (IF use_fairy_stockfish THEN FairyVariants
                         ELSE {"standard", "chess960"})
    THEN calls # <<>> /\ calls[1].op = "accept" /\ calls[1].id = last.id
    ELSE OneDecline(calls, last.id, "variant")

\* C8: a challenge of a blocked user dispatched by a bot that is not winding
\* down, has no current game and has the latch clear gets exactly one call, a
\* decline with reason 'generic', and the session is left as it was:
\* challenge_accepted false, current_game_id null, not winding down, not
\* stopping.
C8_BlockedDeclinedGeneric ==
  (/\ last.type = "challenge"
   /\ ~last.wd
   /\ last.cur = NoId
   /\ ~last.latch
   /\ Lower(last.challenger) \in blocklist) =>
    /\ OneDecline(calls, last.id, "generic")
    /\ Accepts(calls) = {}
    /\ challenge_accepted = FALSE
    /\ current_game_id = NoId
    /\ winding_down = FALSE
    /\ should_stop = FALSE

\* C8 witness: such a challenge was dispatched; the challenger's name is
\* blocked by its lower-cased form only.
C8_Witness ==
  /\ last.type = "challenge"
  /\ ~last.wd
  /\ last.cur = NoId
  /\ ~last.latch
  /\ Lower(last.challenger) \in blocklist
  /\ last.challenger \notin blocklist
  /\ status[last.id] \in {"inbound", "dead"}

\* C9: a gameStart event dispatched while current_game_id holds a different
\* id is not dropped: handle_game is entered for the new game and
\* current_game_id is overwritten with its id.
C9_GameStartOverwrites ==
  (last.type = "gameStart" /\ last.cur # NoId /\ last.cur # last.id) =>
    /\ pc = "game"
    /\ current_game_id = last.id
    /\ handling = {last.id}

\* C9 witness: a gameStart event met a current_game_id left behind by a
\* handle_game call that was interrupted.
C9_Witness ==
  /\ last.type = "gameStart"
  /\ last.cur \in Ids
  /\ last.cur # last.id
  /\ last.id \in handling

\* C10: every createChallenge call made by the final challenge of the
\* wind-down transition carries rated = false.
C10_FinalChallengeUnrated ==
  (last.type = "crb" /\ last.origin = "winddown") =>
    \A i \in Creates(calls) : ~calls[i].rated

\* the successful createChallenge calls among cs
CreatedOk(cs) == {i \in Creates(cs) : cs[i].ok}

C11_Step ==
  \* the latch, once set, stays set
  /\ winding_down => winding_down'
  \* with the latch set, createChallenge calls are made only by the final
  \* challenge of the transition
  /\ (winding_down' /\ Creates(calls') # {}) =>
       (pc = "crb" /\ crb.origin = "winddown")
  /\ (winding_down' /\ pc' = "crb") => crb'.origin = "winddown"
  \* the final challenge creates at most one challenge and ends when it has
  /\ (pc = "crb" /\ crb.origin = "winddown") =>
       /\ Cardinality(CreatedOk(calls')) <= 1
       /\ CreatedOk(calls') # {} => pc' = "resume"
  \* the final challenge begins only at the transition, and only when idle
  /\ (pc # "crb" /\ pc' = "crb" /\ crb'.origin = "winddown") =>
       /\ ~winding_down
       /\ current_game_id = NoId
       /\ ~challenge_accepted
       /\ auto_challenge_bots

\* C11: once winding_down is set no createChallenge call is made except by
\* the final challenge of the transition step, which begins only when the bot
\* is idle (no current game, no pending acceptance) with auto-challenge on and
\* creates at most one challenge; no later iteration originates a challenge,
\* whatever became of the final one.
C11_WinddownSuppressesOrigination == [][C11_Step]_vars

\* C11 witness: an iteration after the transition dispatched an event while
\* a challenge of the bot was still unanswered.
C11_Witness ==
  /\ winding_down
  /\ last.type \in {"gameFinish", "challenge", "gameStart"}
  /\ auto_challenge_bots
  /\ \E i \in Ids : status[i] = "outbound"
  /\ now >= winddown_hours
  /\ now < max_runtime_hours

\* the order of the phases
PhaseRank(p) ==
  CASE p = "running" -> 0
    [] p = "winding_down" -> 1
    [] p = "shutdown" -> 2

C12_Step ==
  (ret'.fn = "check_schedule" /\ ret'.at = now' /\ now' = now) =>
    \* the phase is the one the thresholds give
    /\ ret'.phase = IF now >= max_runtime_hours THEN "shutdown"
                    ELSE IF now >= winddown_hours THEN "winding_down"
                    ELSE "running"
    \* no session field, setting or threshold is changed
    /\ UNCHANGED <<session, settings, sched, runargs, ctl, env, hist>>
    \* a second call at the same elapsed time returns the same phase
    /\ (ret.fn = "check_schedule" /\ ret.at = now) => ret'.phase = ret.phase
    \* the phase does not move backwards
    /\ (ret.fn = "check_schedule" /\ winddown_hours <= max_runtime_hours) =>
         PhaseRank(ret.phase) <= PhaseRank(ret'.phase)

\* C12: check_schedule returns 'shutdown' if elapsed >= max_runtime_hours, else
\* 'winding_down' if elapsed >= winddown_hours, else 'running'; it changes no
\* state, returns the same phase when called again at the same elapsed time,
\* and with winddown_hours <= max_runtime_hours its phase never moves
\* backwards as time grows.
C12_CheckSchedulePure == [][C12_Step]_vars

\* C12 witness: a call returned 'winding_down' after an earlier elapsed time,
\* with the winding_down latch still false.
C12_Witness ==
  /\ ret.fn = "check_schedule"
  /\ ret.phase = "winding_down"
  /\ ret.at = now
  /\ now > winddown_hours
  /\ ~winding_down
  /\ ~final_game_played

\* C13: an event received at an elapsed time >= max_runtime_hours is not
\* dispatched: the iteration makes no call, enters no handle_game, changes no
\* session field, leaves the loop and runs cleanup; every iteration that gets
\* as far as the stop check, the final-game check or a dispatch ran before
\* the shutdown threshold.
C13_ShutdownWithoutDispatch ==
  /\ last.type \in {"challenge", "gameStart", "gameFinish", "winddown",
                    "stop", "final"} => now < max_runtime_hours
  /\ last.type = "shutdown" =>
       /\ now >= max_runtime_hours
       /\ pc = "done"
       /\ cleanups = 1
       /\ calls = <<>>
       /\ handling = {}
       /\ current_game_id = last.cur
       /\ challenge_accepted = last.latch
       /\ winding_down = last.wd

\* C13 witness: a challenge event was received after the shutdown threshold
\* and the challenge is left unanswered.
C13_Witness ==
  /\ last.type = "shutdown"
  /\ last.id \in Ids
  /\ status[last.id] = "inbound"
  /\ cleanups = 1

\* run's thread is inside the try of the main loop
InMainLoop ==
  \/ pc \in {"loop", "game", "resume"}
  \/ pc = "crb" /\ crb.origin # "startup"

\* C14: once the wind-down threshold has passed, the bot in its main loop
\* eventually leaves the loop and runs cleanup, provided every handle_game call
\* returns, events keep arriving and time goes on.
C14_EventualShutdown ==
  (InMainLoop /\ now >= winddown_hours) ~> (pc = "done" /\ cleanups = 1)

\* C14 witness: the bot left the loop on the gameFinish event of a game that
\* was played during wind-down.
C14_Witness ==
  /\ pc = "done"
  /\ cleanups = 1
  /\ last.type = "gameFinish"
  /\ final_game_played
  /\ now >= winddown_hours
  /\ now < max_runtime_hours
  /\ status[last.id] = "over"

\* C15: when the loop exits because of the shutdown phase or on the
\* final-game path, no game the bot plays in is started and unfinished.
C15_NoGameAbandoned ==
  (pc = "done" /\ last.type \in {"shutdown", "final", "gameFinish"}) =>
    OpenGames = {}

\* C16: cleanup has run exactly once when run() has been left, whichever
\* way it was left, and not at all before.
C16_CleanupExactlyOnce ==
  /\ pc = "done" => cleanups = 1
  /\ pc \notin {"done", "config"} => cleanups = 0

\* the call was made outside manual mode with well-formed arguments
ComputedCall ==
  /\ ret.fn = "get_time_limit"
  /\ ~args.manual_mode
  /\ ~args.malformed

\* C17: outside manual mode, for initial <= 60 s and no increment, the depth
\* is 30 and the budget lies between 0.82 s and 0.84 s, whatever the
\* remaining clock and the number of plies.
C17_UltraShortBudget ==
  (ComputedCall /\ args.initial <= 60 /\ args.increment = 0) =>
    /\ ret.depth = 30
    /\ ret.time_limit >= Hundredths(82)
    /\ ret.time_limit <= Hundredths(84)

C17_Witness ==
  /\ ComputedCall
  /\ args.initial = 60
  /\ args.increment = 0
  /\ TimeLeft(args) = 60000
  /\ args.moves_played = 0
  /\ ret.depth = 30
  /\ ret.time_limit = Hundredths(82)

\* C18 as stated: outside manual mode, for initial = 600 s and increment =
\* 5 s, the budget is min(15.0, remaining * 0.05) and the depth 35.
C18_AsStated ==
  (ComputedCall /\ args.initial = 600 /\ args.increment = 5) =>
    /\ ret.time_limit = Min(Hundredths(1500), TimeLeft(args) * 500)
    /\ ret.depth = 35

\* C18 as the code has it: outside manual mode, for initial = 600 s and
\* increment = 5 s (600 + 40 * 5 = 800 <= 900), the budget is
\* max(0.82, min(5.0, remaining * 0.04)) and the depth 35.
C18_LongBandBudget ==
  (ComputedCall /\ args.initial = 600 /\ args.increment = 5) =>
    /\ ret.time_limit =
         Max(Hundredths(82), Min(Hundredths(500), TimeLeft(args) * 400))
    /\ ret.depth = 35

C18_Witness ==
  /\ ComputedCall
  /\ args.initial = 600
  /\ args.increment = 5
  /\ TimeLeft(args) = 600000
  /\ args.moves_played = 20
  /\ ret.time_limit = Hundredths(500)
  /\ ret.depth = 35

\* C19: outside manual mode the budget is at least 0.82 s and at most the
\* cap of the band of the time control, hence at most 15.0 s, for every
\* clock, time control and number of plies; on malformed arguments the
\* result is the fixed pair (3.88 s, 45).
C19_FloorAndCap ==
  /\ ComputedCall =>
       /\ ret.time_limit >= Hundredths(82)
       /\ ret.time_limit <= Band(args.initial, args.increment).cap
       /\ ret.time_limit <= Hundredths(1500)
  /\ (ret.fn = "get_time_limit" /\ ~args.manual_mode /\ args.malformed) =>
       (ret.time_limit = Hundredths(388) /\ ret.depth = 45)

\* an early ply of an ultra-short game with an empty clock: scaling and
\* minimum would give less than the lower limit
C19_Witness ==
  /\ ComputedCall
  /\ args.initial <= 60
  /\ args.moves_played < 12
  /\ TimeLeft(args) = 0
  /\ ret.time_limit = Hundredths(82)

\* C20: in manual mode the result is the pair (manual_time_limit,
\* manual_depth) whatever the other arguments are, well-formed or not, with
\* neither the lower limit nor a cap applied.
C20_ManualExact ==
  (ret.fn = "get_time_limit" /\ args.manual_mode) =>
    /\ ret.time_limit = args.manual_time_limit
    /\ ret.depth = args.manual_depth

\* the settings of run_scheduled.py, below the lower limit, with a clock
\* that cannot be read
C20_Witness ==
  /\ ret.fn = "get_time_limit"
  /\ args.manual_mode
  /\ args.malformed
  /\ args.manual_time_limit = Hundredths(10)
  /\ args.manual_depth = 50
  /\ ret.time_limit < Hundredths(82)
  /\ ret.depth = 50

\* the non-king, non-pawn pieces of the board of the call
OfficersOnBoard ==
  args.board.white.Q + args.board.white.R + args.board.white.B
  + args.board.white.N + args.board.black.Q + args.board.black.R
  + args.board.black.B + args.board.black.N

QueenOnBoard == args.board.white.Q + args.board.black.Q > 0

\* C22: is_endgame answers true exactly when the board holds at most 6
\* non-king, non-pawn pieces, or at most 10 of them and no queen of either
\* colour; the pawns play no part.
C22_EndgameClassifier ==
  ret.fn = "is_endgame" =>
    (ret.result <=> (OfficersOnBoard <= 6
                     \/ (OfficersOnBoard <= 10 /\ ~QueenOnBoard)))

\* a queen and seven more pieces on each side, sixteen in all: not an endgame
C22_Witness ==
  /\ ret.fn = "is_endgame"
  /\ args.board.white = Side(1, 1, 2, 2, 3, 8)
  /\ args.board.black = Side(1, 1, 2, 2, 3, 8)
  /\ ~ret.result

\* kings with one pawn each: an endgame
C22_KingsAndPawns ==
  /\ ret.fn = "is_endgame"
  /\ args.board.white = Side(1, 0, 0, 0, 0, 1)
  /\ args.board.black = Side(1, 0, 0, 0, 0, 1)
  /\ ret.result

\* the moves a table stores for a position
Stored(book, fen) ==
  IF fen \in DOMAIN book THEN {book[fen][i] : i \in 1..Len(book[fen])} ELSE {}

\* the call was a make_move that reached the book phase
BookPhaseReached ==
  /\ ret.fn = "make_move"
  /\ args.position.replay = "ok"
  /\ ~args.position.over

\* C21: an answer of the opening book is one of the moves stored for the
\* FEN of the position, and None when the FEN is not a key; for the starting
\* position of a standard game the bot submits one of e2e4, d2d4, c2c4, g1f3
\* and does not call the engine.
C21_OpeningBookMembership ==
  ret.fn = "make_move" =>
    /\ \A i \in 1..Len(ret.consulted) :
         ret.consulted[i].book = "opening" =>
           IF args.position.fen \in DOMAIN OPENING_BOOK
             THEN ret.consulted[i].answer
                    \in Stored(OPENING_BOOK, args.position.fen)
             ELSE ret.consulted[i].answer = None
    /\ (args.position.variant = "standard" /\ args.position.moves_count = 0)
         => /\ Len(ret.submitted) = 1
            /\ ret.submitted[1] \in {"e2e4", "d2d4", "c2c4", "g1f3"}
            /\ ~ret.engine

C21_Witness ==
  /\ ret.fn = "make_move"
  /\ args.position.variant = "standard"
  /\ args.position.moves_count = 0
  /\ ret.consulted = <<[book |-> "opening", answer |-> "c2c4"]>>
  /\ ret.submitted = <<"c2c4">>
  /\ ret.result = "c2c4"
  /\ ~ret.engine

\* the i-th table asked answered a legal move of the position
LegalHit(i) == ret.consulted[i].answer \in args.position.legal

BooksAsked == {ret.consulted[i].book : i \in 1..Len(ret.consulted)}

\* the position of a table in the order of the book phase
BookRank(book) ==
  CASE book = "opening" -> 1
    [] book = "middlegame" -> 2
    [] book = "endgame" -> 3
    [] OTHER -> 0

\* some table asked before the one of this rank answered a legal move
HitBefore(rank) ==
  \E i \in 1..Len(ret.consulted) :
    BookRank(ret.consulted[i].book) < rank /\ LegalHit(i)

\* C30: a call of make_move submits at most one move and none when the
\* replayed position is game over; a book move is submitted only if it is
\* legal; in a standard game the opening table is asked when ply <= 15, then
\* the middlegame table when 10 <= ply <= 30, then the endgame table when
\* is_endgame holds, each only if no earlier table gave a legal move; in
\* other variants only the variant table is asked, and only when ply <= 10;
\* the engine is called exactly when no table gave a legal move.
C30_BookThenEngine ==
  ret.fn = "make_move" =>
    /\ Len(ret.submitted) <= 1
    /\ args.position.over =>
         (ret.submitted = <<>> /\ ret.consulted = <<>> /\ ~ret.engine)
    /\ BookPhaseReached =>
         LET p == args.position
             n == Len(ret.consulted)
         IN  /\ (~ret.engine /\ ret.submitted # <<>>) =>
                  /\ ret.submitted[1] \in p.legal
                  /\ LegalHit(n)
                  /\ ret.submitted[1] = ret.consulted[n].answer
             /\ \A i \in 1..n : LegalHit(i) => i = n
             /\ \A i, j \in 1..n :
                  i < j => BookRank(ret.consulted[i].book)
                             < BookRank(ret.consulted[j].book)
             /\ p.variant = "standard" =>
                  /\ BooksAsked \subseteq {"opening", "middlegame", "endgame"}
                  /\ "opening" \in BooksAsked <=> p.moves_count <= 15
                  /\ "middlegame" \in BooksAsked <=>
                       (10 <= p.moves_count /\ p.moves_count <= 30
                        /\ ~HitBefore(2))
                  /\ "endgame" \in BooksAsked <=>
                       (is_endgame(p.material) /\ ~HitBefore(3))
             /\ p.variant # "standard" =>
                  /\ BooksAsked \subseteq {"variant"}
                  /\ n <= 1
                  /\ n = 1 <=> p.moves_count <= 10
             /\ ret.engine <=> (\A i \in 1..n : ~LegalHit(i))

\* the middlegame table answers d4d5 for a position in which the pawn on d4
\* is blocked: the answer is dropped and the engine's move is submitted
C30_Witness ==
  /\ ret.fn = "make_move"
  /\ args.position.moves_count = 16
  /\ ret.consulted = <<[book |-> "middlegame", answer |-> "d4d5"]>>
  /\ ret.engine
  /\ ret.submitted = <<"bestmove">>

\* the side to move by the parity of the move list of the i-th event read is
\* the side the bot had when the event was handled
ParityTurn(i) ==
  (Len(log[i].ev.moves) % 2 = 0) = (log[i].side = "True")

\* C23: whenever handle_game asks whether it is the bot's turn, for a
\* gameFull or gameState event of a game of any variant, the answer is that
\* of the parity of the event's own move list against the bot's side.
C23_TurnByParity ==
  \A i \in 1..Len(log) :
    log[i].turn # "None" => (log[i].turn = "True" <=> ParityTurn(i))

\* C24: make_move is invoked for an event exactly when the side is known,
\* the event is a gameFull or gameState whose status is 'started', and the
\* parity of its move list gives the bot the move.
C24_PipelineInvokedOnTurn ==
  \A i \in 1..Len(log) :
    log[i].invoked <=>
      /\ log[i].side # "None"
      /\ log[i].ev.type \in {"gameFull", "gameState"}
      /\ log[i].ev.status = "started"
      /\ ParityTurn(i)

\* C29: only the last event read can be a gameState whose status is not
\* 'started', and no move follows it; when handle_game has returned,
\* whether the game finished, the stream ended or a fault was caught,
\* current_game_id is null, the main loop is where it goes on and cleanup
\* has not run.
C29_FinishedIsTerminal ==
  /\ \A i \in 1..Len(log) :
       (log[i].ev.type = "gameState" /\ log[i].ev.status # "started") =>
         (i = Len(log) /\ ~log[i].invoked /\ ~log[i].moved /\ pc = "loop")
  /\ pc # "game" =>
       /\ pc = "loop"
       /\ current_game_id = NoId
       /\ handling = {}
       /\ cleanups = 0
       /\ last.type \in {"return", "streamEnd", "gameFault"}

\* the game finished while the stream still held events
C29_Witness ==
  /\ pc = "loop"
  /\ last.type = "return"
  /\ current_game_id = NoId
  /\ Len(log) = 2
  /\ log[1].invoked
  /\ log[2].ev.status = "mate"
  /\ stream # <<>>
  /\ Head(stream).status = "started"

\* C25: no accept call is made for a challenge whose challenger is on the
\* blocklist, and no create call for a target that is on it, whether
\* challenge_user was called for a name of challenge_users or for a bot
\* drawn by challenge_random_bot; the names are compared in lower case.
C25_BlocklistNeverBypassed ==
  /\ Accepts(calls) # {} => Lower(last.challenger) \notin blocklist
  /\ \A i \in Creates(calls) : Lower(calls[i].user) \notin blocklist

\* run was given a name that is on the blocklist in lower case only: its
\* startup challenge made no call
C25_Witness ==
  /\ last.type = "startup"
  /\ challenge_users = <<"Ann">>
  /\ Lower("Ann") \in blocklist
  /\ "Ann" \notin blocklist
  /\ pc = "loop"
  /\ calls = <<>>
  /\ nextId = 1

\* the flag challenge_user has to find set for what the lookup answered
FlagFor(kind) == IF kind = "bot" THEN can_challenge_bots ELSE can_challenge_users

\* C26: challenge_user makes no call and returns False when a game is
\* current, arena mode is on or the target is blocked; a create call comes
\* directly after the lookup of the target and only if can_challenge_bots
\* holds for a bot, can_challenge_users for a user or a failed lookup; the
\* result is True only when the create call succeeded.
C26_ChallengeUserGuards ==
  ret.fn = "challenge_user" =>
    /\ (current_game_id # NoId \/ arena_mode
        \/ Lower(args.username) \in blocklist)
         => (ret.calls = <<>> /\ ~ret.ok)
    /\ \A i \in Creates(ret.calls) :
         /\ i = 2
         /\ ret.calls[1].op = "lookup"
         /\ ret.calls[1].user = args.username
         /\ FlagFor(ret.calls[1].reason)
         /\ ret.calls[i].user = args.username
         /\ ret.calls[i].rated = args.rated
    /\ Len(ret.calls) <= 2
    /\ ret.ok <=> (\E i \in Creates(ret.calls) : ret.calls[i].ok)

\* the lookup of a bot fails while only user challenges are allowed: the
\* target is taken for a user and challenged
C26_Witness ==
  /\ ret.fn = "challenge_user"
  /\ args.username \in Bots
  /\ ~can_challenge_bots
  /\ can_challenge_users
  /\ ret.calls[1].reason = "error"
  /\ Creates(ret.calls) = {2}
  /\ ret.ok

\* the lookup calls of a step: one for each challenge_user call that got
\* past its guards
Lookups(cs) == {i \in 1..Len(cs) : cs[i].op = "lookup"}

\* what one frame of challenge_random_bot may do
C27_Frame ==
  /\ Len(crb.tried) + crb.retries <= MaxRetries
  /\ Cardinality(Lookups(calls')) <= 2
  /\ Cardinality(Creates(calls')) <= 2
  /\ \A i, j \in 1..Len(calls') : calls'[i].user = calls'[j].user
  /\ \A i \in Creates(calls') :
       /\ calls'[i].rated <=> (i = 2)
       /\ calls'[i].ok => (i = Len(calls') /\ pc' # "crb")
  /\ pc' = "crb" =>
       /\ crb.retries > 0
       /\ crb'.retries = crb.retries - 1
       /\ Len(crb'.tried) = Len(crb.tried) + 1
       /\ Cardinality(Lookups(calls')) = 2
       /\ \A i \in Creates(calls') : ~calls'[i].ok

\* C27: a call of challenge_random_bot with retry count n <= MaxRetries
\* returns: each frame challenges one bot, rated and then, only if that
\* failed, casual; a successful attempt is the frame's last call and ends
\* the call; a further frame is entered only after two failed attempts and
\* with a retry count that is smaller by one, so the frames so far and the
\* retries left never exceed n (at most n + 1 bots, 2 * (n + 1) attempts);
\* no frame follows when the count is 0 or when no unblocked bot is online.
C27_RandomBotTerminates ==
  /\ [][CrbFrame => C27_Frame]_vars
  /\ (pc = "crb") ~> (pc # "crb")

\* the last frame of a call with retry count MaxRetries: every frame
\* before it failed twice, it fails twice too and the call gives up
C27_Witness ==
  /\ last.type = "crb"
  /\ pc # "crb"
  /\ Cardinality(Lookups(calls)) = 2
  /\ Cardinality(Creates(calls)) = 2
  /\ \A i \in Creates(calls) : ~calls[i].ok
  /\ status = [i \in Ids |-> "unused"]

\* C28 (as stated): a frame of challenge_random_bot never challenges a bot
\* whose rated and casual attempts both failed in an earlier frame of the
\* same chain.
C28_RetryTargetsDifferentBot ==
  [][CrbFrame =>
       \A i \in 1..Len(calls') :
         \A k \in 1..Len(crb.tried) : calls'[i].user # crb.tried[k]]_vars

\* what the last blocklist call must have returned and left behind, given
\* the set it met
C32_LastCall ==
  LET l == Lower(ret.username)
  IN  /\ ret.fn = "add_to_blocklist" =>
           /\ ret.result <=> l \notin ret.before
           /\ blocklist = ret.before \cup {l}
      /\ ret.fn = "remove_from_blocklist" =>
           /\ ret.result <=> l \in ret.before
           /\ blocklist = ret.before \ {l}
      /\ ret.fn = "is_blocked" =>
           /\ ret.result <=> l \in blocklist
           /\ blocklist = ret.before
      /\ ~ret.result => blocklist = ret.before

\* C32: after any sequence of add_to_blocklist and remove_from_blocklist
\* calls the blocklist holds lower-cased names only; an add of a name that
\* is present in any letter case and a remove of an absent one return False
\* and leave the set as it was; a remove that follows a successful add of
\* the same name, in any letter case, returns True and restores the set the
\* add met; is_blocked(u) is True exactly when lower(u) is in the set.
C32_BlocklistAlgebra ==
  [][/\ \A n \in blocklist' : n = Lower(n)
     /\ ret'.fn # None => C32_LastCall'
     /\ (/\ ret.fn = "add_to_blocklist"
         /\ ret.result
         /\ args'.fn = "remove_from_blocklist"
         /\ Lower(args'.username) = Lower(ret.username)
         /\ <<args, ret>>' # <<args, ret>>)
          => (ret'.result /\ blocklist' = ret.before)]_vars

\* "Ann" was added and then removed as "ann": the set is the one the add met
C32_Witness ==
  /\ ret.fn = "remove_from_blocklist"
  /\ ret.username = "ann"
  /\ ret.result
  /\ ret.before = {"ann", "botb"}
  /\ blocklist = {"botb"}

\* C33 (as stated): after every add_to_blocklist or remove_from_blocklist
\* call that returned True the blocklist file holds exactly the in-memory
\* set, whatever the file system did with the write.
C33_FileEqualsMemory ==
  (ret.fn \in {"add_to_blocklist", "remove_from_blocklist"} /\ ret.result)
    => blocklist_file = Written(blocklist)

\* the events that ask for a decision: a gameFull or gameState event of a
\* game that is going on, read when the bot's side is known
Decisive(l) ==
  /\ l.ev.type \in {"gameFull", "gameState"}
  /\ l.ev.status = "started"
  /\ l.side # "None"

C34_ArenaModeNoChallenges ==
  arena_mode =>
    /\ Accepts(calls) = {}
    /\ Creates(calls) = {}
    /\ (/\ last.type = "challenge"
        /\ ~last.wd
        /\ last.cur = NoId
        /\ ~last.latch
        /\ Lower(last.challenger) \notin blocklist
        /\ last.variant \in supported_variants(use_fairy_stockfish)
        /\ (last.variant = "standard" \/ use_fairy_stockfish)) =>
         /\ OneDecline(calls, last.id, "later")
         /\ ~challenge_accepted
    /\ last.type = "gameStart" =>
         /\ pc = "game"
         /\ current_game_id = last.id
         /\ handling = {last.id}

\* in arena mode a game of the tournament is being played, a challenge to
\* an atomic game, which the active engine could play, arrived meanwhile,
\* and after the game it reached accept_challenge and was declined
C34_Witness ==
  /\ arena_mode
  /\ last.type = "challenge"
  /\ ~last.wd /\ last.cur = NoId /\ ~last.latch
  /\ Lower(last.challenger) \notin blocklist
  /\ last.variant = "atomic"
  /\ use_fairy_stockfish
  /\ Len(calls) = 1 /\ calls[1].op = "decline"
  /\ \E i \in Ids : status[i] = "over"

\* in arena mode a game the service paired the bot into is played
C34_GamePlayed ==
  /\ arena_mode
  /\ last.type = "gameStart"
  /\ pc = "game"
\* C35 (as stated): the process exits only from the constructor, with a
\* non-zero code, when the account cannot be verified (the engine is then
\* never started) or the engine cannot be started; once the constructor
\* has returned no call exits the process, a set_engine_settings call whose
\* engine fails to start included; a set_engine_settings call with the
\* value the flag has changes nothing.
C35_OnlyStartupFaultsExit ==
  /\ pc = "exited" => (ret.fn = "__init__" /\ ret.code # 0)
  /\ (ret.fn = "__init__" /\ ~ret.verified) =>
       (ret.engine = None /\ pc = "exited")
  /\ (ret.fn = "set_engine_settings" /\ ~ret.changed) =>
       (/\ ~ret.quit
        /\ ~ret.exited
        /\ use_fairy_stockfish = args.before)
\* the kinds of step in which run dispatched the event it received
DispatchKinds == {"challenge", "gameStart", "gameFinish", "other"}

\* C36 (as stated): once the loop has observed the stop request, it
\* dispatches no further event, it makes no call to the service (no
\* challenge is accepted, declined or originated), it enters no game, and
\* the iteration of the next event it receives ends in the exit of run with
\* one more cleanup.
C36_NothingAfterStopObserved ==
  [][should_stop =>
       /\ last'.type \notin DispatchKinds
       /\ calls' = <<>>
       /\ handling' \subseteq handling
       /\ (pc \in {"loop", "resume"} /\ last'.type \notin {None, "winddown"})
            => (pc' = "done" /\ cleanups' = cleanups + 1)]_vars
\* C37 (as stated): winding_down is true only if the elapsed time has
\* reached winddown_hours, final_game_played is true only if winding_down
\* is, and winding_down is never cleared once it is set.
C37_LatchesFollowElapsedTime ==
  /\ [](winding_down => now >= winddown_hours)
  /\ [](final_game_played => winding_down)
  /\ [][winding_down => winding_down']_vars
\* the challenge_random_bot call of the wind-down transition has returned
\* and one of its challenge requests succeeded
FinalChallengeSent ==
  pc = "resume" /\ \E k \in Creates(calls) : calls[k].ok

\* C38 (as stated): when the wind-down transition has originated the final
\* challenge, the rest of that iteration does not count the event it
\* received as the final game: final_game_played stays false and run is not
\* left through the final-game path while that challenge is outstanding.
C38_FinalGameIsOfFinalChallenge ==
  [][FinalChallengeSent => ~final_game_played']_vars
\* C39 (as stated): whenever challenge_accepted is set it is eventually
\* cleared, whether or not the game of the accepted challenge ever starts.
C39_LatchEventuallyCleared ==
  challenge_accepted ~> ~challenge_accepted
\* C40: within a run current_game_id is non-null only while handle_game is
\* executing: wherever run's thread stands outside handle_game (the startup
\* challenges, a challenge_random_bot call, the top of an iteration, the
\* rest of the wind-down iteration) it is null; every iteration that
\* evaluated the schedule or dispatched an event met it null, so that no
\* challenge met the 'already in a game' branch and no gameStart event the
\* warning; and an event is dispatched only when no handle_game call is in
\* progress, the events that arrived during a game included.
C40_GameIdOnlyInsideHandleGame ==
  /\ pc \in {"config", "startup", "crb", "loop", "resume"} =>
       current_game_id = NoId
  /\ pc = "game" => (current_game_id # NoId /\ handling = {current_game_id})
  /\ last.type \in DispatchKinds \cup {"winddown", "shutdown", "stop", "final"} =>
       last.cur = NoId
  /\ last.type \in DispatchKinds =>
       handling = (IF last.type = "gameStart" THEN {last.id} ELSE {})

\* C40 witness: handle_game is executing, current_game_id names its game,
\* and a challenge that arrived during the game waits in the event stream.
C40_Witness ==
  /\ pc = "game"
  /\ current_game_id \in Ids
  /\ handling = {current_game_id}
  /\ queue # <<>>
  /\ Head(queue).type = "challenge"
====
